---------------------------- MODULE Spec2Model ----------------------------
(***************************************************************************)
(* A model of the coroutine-first I/O core of wg21-papers:                 *)
(*   - co::detail::frame_pool     (coro-first-io/bench_co_detail.hpp)      *)
(*   - co::task, co::socket, run_on, async_run (coro-first-io/bench_co.hpp)*)
(*   - the affine task mixins     (affine-awaitables task.hpp / helpers)   *)
(*   - the stoppable awaiter      (stoppable awaitables paper, section 6)  *)
(***************************************************************************)
EXTENDS Integers, Sequences, FiniteSets, TLC

(***************************************************************************)
(* Bounds of the model.                                                    *)
(***************************************************************************)
MaxSize == 2
MaxBlocks == 2
MaxDepth == 3
MaxReads == 1
MaxRuns == 3
MaxOps == 3
MaxExec == 2
MaxBefore == 1
MaxBody == 3
MaxInner == 2
MaxThreads == 2
MaxItems == 3
MaxOver == 1
MaxAwaits == 2
QueueReserve == 64
ReadCalls == 5
RequestCalls == 10
SessionCalls == 100
TlsCalls == 1
CoReadCalls == 5
CoRequestCalls == 10
CoSessionCalls == 100

Thread == {1, 2}
Ctx == {"A", "B"}
NoCtx == "none"
Sizes == 1..MaxSize

\* coroutine handles: 0 is the root wrapper, 1..MaxDepth the tasks of a chain
Root == 0
Task == 1..MaxDepth
Handle == 0..MaxDepth
NoH == -2        \* a null coroutine_handle
Noop == -1       \* std::noop_coroutine()

VARIABLES
    \* ---- frame pool -----------------------------------------------------
    pool,        \* [cap, bsize, local, global]: the blocks and the free lists
    held,        \* blocks handed out by the pool operations: block -> requested
                 \* size and allocating thread
    last,        \* the last pool operation and where its block came from
    xs,          \* observer of the "allocate on 1, free on 2, allocate on 1" scenario
    \* ---- co::task chain -------------------------------------------------
    chain,       \* the chain being run: depth, run_on bindings, frame sizes, reads
    run,         \* number of the current repetition (1 is the warm-up)
    fr,          \* coroutine frames: handle -> promise fields and position
    q,           \* io_context work queues: context -> sequence of work items
    read_op,     \* socket::read_op_ (the one preallocated read_state)
    cur,         \* what each thread is executing
    cnt,         \* counters of the current repetition (allocations, starters)
    obs,         \* the last step: its kind, who took it, the handle and the
                 \* executor it went through, the context it ran on
    \* ---- affine task (my_task on a simple_executor, operations on g_pool) --
    at,          \* the task: body, position, dispatcher_, thread, done flag
    exq,         \* simple_executor::queue_
    plq,         \* thread_pool::queue_
    \* ---- stoppable task -------------------------------------------------
    sp,          \* the chain: body, stop state, position, what each await saw
    \* ---- executor_ref --------------------------------------------------
    rf,          \* two references, the executors, and the last comparison
    \* ---- task<T, run_loop> ---------------------------------------------
    tt,          \* the outer and inner task, the run loop, the pool, the counts
    \* ---- composed operations, callbacks and coroutines -----------------
    io,          \* one row of the benchmark: the operation, the queue, the counts
    \* ---- thread_pool ----------------------------------------------------
    tp,          \* the queue, the workers, the caller of dispatch, the destructor
    \* ---- the done flag of an affine task --------------------------------
    dn           \* the task, its frame, the flag, the waiting thread

poolVars == <<pool, held, last, xs>>
coVars == <<chain, run, fr, q, read_op, cur, cnt, obs>>
affVars == <<at, exq, plq>>
stopVars == <<sp>>
refVars == <<rf>>
taskVars == <<tt>>
ioVars == <<io>>
tpVars == <<tp>>
doneVars == <<dn>>
vars == <<pool, held, last, xs, chain, run, fr, q, read_op, cur, cnt, obs,
          at, exq, plq, sp, rf, tt, io, tp, dn>>

(***************************************************************************)
(* frame_pool                                                              *)
(*                                                                         *)
(* A block is a number; pool.cap[b] is the number of bytes ::operator new  *)
(* was asked for when b was obtained, pool.bsize[b] the size field stored  *)
(* in the block.  A free list is the sequence of its blocks, head first.   *)
(***************************************************************************)
EmptyPool ==
    [cap |-> <<>>, bsize |-> <<>>, local |-> [t \in Thread |-> <<>>], global |-> <<>>]

Remove(list, i) == SubSeq(list, 1, i - 1) \o SubSeq(list, i + 1, Len(list))

\* the variant of pop without the size check: the head of the list
PopHead(list, bsize, n) == IF list = <<>> THEN 0 ELSE 1

\* local_pool::pop / global_pool::pop: the index of the first block of the list
\* whose recorded size is at least n, 0 when there is none
PopIndex(list, bsize, n) ==
    LET fit == {i \in 1..Len(list) : bsize[list[i]] >= n}
    IN  IF fit = {} THEN 0 ELSE CHOOSE i \in fit : \A j \in fit : i <= j

\* what an operation of the pool goes to: get_local() is the list of the
\* calling thread and takes no lock, global_pool::pop and push hold the
\* lock_guard on mtx, ::operator new is the system allocator
GetLocal(t) == [list |-> "local", of |-> t, locked |-> FALSE]

GlobalPool == [list |-> "global", of |-> 0, locked |-> TRUE]

OperatorNew == [list |-> "system", of |-> 0, locked |-> FALSE]

\* the variant of allocate that looks in the global list before the local one
AllocateGlobalFirst(p, t, n) ==
    LET li == PopIndex(p.local[t], p.bsize, n)
        gi == PopIndex(p.global, p.bsize, n)
        b == Len(p.cap) + 1
    IN  IF gi > 0
        THEN [pool |-> [p EXCEPT !.global = Remove(@, gi)],
              blk |-> p.global[gi], from |-> "global", acc |-> <<GlobalPool>>]
        ELSE IF li > 0
        THEN [pool |-> [p EXCEPT !.local[t] = Remove(@, li)],
              blk |-> p.local[t][li], from |-> "local",
              acc |-> <<GlobalPool, GetLocal(t)>>]
        ELSE [pool |-> [p EXCEPT !.cap = Append(@, n), !.bsize = Append(@, n)],
              blk |-> b, from |-> "system",
              acc |-> <<GlobalPool, GetLocal(t), OperatorNew>>]

\* frame_pool::allocate(n) called on thread t: the pool afterwards, the block
\* returned, where it came from and what was gone to, in order
Allocate(p, t, n) ==
    LET li == PopIndex(p.local[t], p.bsize, n)
        gi == PopIndex(p.global, p.bsize, n)
        b == Len(p.cap) + 1
    IN  IF li > 0
        THEN [pool |-> [p EXCEPT !.local[t] = Remove(@, li)],
              blk |-> p.local[t][li], from |-> "local", acc |-> <<GetLocal(t)>>]
        ELSE IF gi > 0
        THEN [pool |-> [p EXCEPT !.global = Remove(@, gi)],
              blk |-> p.global[gi], from |-> "global",
              acc |-> <<GetLocal(t), GlobalPool>>]
        ELSE [pool |-> [p EXCEPT !.cap = Append(@, n), !.bsize = Append(@, n)],
              blk |-> b, from |-> "system",
              acc |-> <<GetLocal(t), GlobalPool, OperatorNew>>]

\* the variant of deallocate with one list for all threads
DeallocateShared(p, t, b, n) ==
    [p EXCEPT !.bsize[b] = n, !.local[1] = <<b>> \o @]

\* frame_pool::deallocate(p, n) called on thread t: the size field is set to
\* n and the block is pushed on the calling thread's list
Deallocate(p, t, b, n) ==
    [p EXCEPT !.bsize[b] = n, !.local[t] = <<b>> \o @]

(***************************************************************************)
(* Direct use of the pool: any thread allocates any size and frees any     *)
(* block it or another thread obtained.  xs follows the cross-thread       *)
(* scenario "thread 1 allocates N blocks of one size, thread 2 frees all   *)
(* of them, thread 1 allocates N blocks of that size again" from the       *)
(* fresh pool; any operation outside the scenario switches it off.         *)
(***************************************************************************)
NoOp ==
    [op |-> "none", t |-> 0, n |-> 0, blk |-> 0, from |-> "none", acc |-> <<>>, by |-> 0]

\* a block that is not handed out
NotHeld == [n |-> 0, by |-> 0]

XsInit == [stage |-> "alloc", n |-> 0, N |-> 0, k |-> 0, sys |-> 0]
XsOff == [stage |-> "off", n |-> 0, N |-> 0, k |-> 0, sys |-> 0]

XsAllocate(x, t, n, from) ==
    IF x.stage = "alloc" /\ t = 1 /\ (x.N = 0 \/ x.n = n)
    THEN [x EXCEPT !.n = n, !.N = @ + 1]
    ELSE IF x.stage = "again" /\ t = 1 /\ x.n = n /\ x.k < x.N
    THEN [x EXCEPT !.k = @ + 1,
                   !.sys = @ + (IF from = "system" THEN 1 ELSE 0)]
    ELSE XsOff

XsDeallocate(x, t) ==
    IF x.stage \in {"alloc", "free"} /\ t = 2 /\ x.k < x.N
    THEN [x EXCEPT !.k = IF x.k + 1 = x.N THEN 0 ELSE x.k + 1,
                   !.stage = IF x.k + 1 = x.N THEN "again" ELSE "free"]
    ELSE XsOff

PoolAllocate(t, n) ==
    LET a == Allocate(pool, t, n)
    IN  /\ a.from = "system" => Len(pool.cap) < MaxBlocks
        /\ pool' = a.pool
        /\ held' = [b \in 1..Len(a.pool.cap) |->
                        IF b = a.blk THEN [n |-> n, by |-> t]
                        ELSE IF b <= Len(held) THEN held[b] ELSE NotHeld]
        /\ last' = [op |-> "alloc", t |-> t, n |-> n, blk |-> a.blk, from |-> a.from,
                    acc |-> a.acc, by |-> t]
        /\ xs' = XsAllocate(xs, t, n, a.from)
        /\ UNCHANGED <<coVars, affVars, stopVars, refVars, taskVars, ioVars, tpVars, doneVars>>

PoolDeallocate(t, b) ==
    /\ b \in 1..Len(held)
    /\ held[b].n > 0
    /\ pool' = Deallocate(pool, t, b, held[b].n)
    /\ held' = [held EXCEPT ![b] = NotHeld]
    /\ last' = [op |-> "free", t |-> t, n |-> held[b].n, blk |-> b, from |-> "none",
                acc |-> <<GetLocal(t)>>, by |-> held[b].by]
    /\ xs' = XsDeallocate(xs, t)
    /\ UNCHANGED <<coVars, affVars, stopVars, refVars, taskVars, ioVars, tpVars, doneVars>>

(***************************************************************************)
(* co::task chains                                                         *)
(*                                                                         *)
(* A chain is the root wrapper (handle 0, present when the chain is        *)
(* launched with async_run) and the tasks 1..D; task i awaits task i+1.    *)
(* The body of a task is: pre socket reads, the await of its child, post   *)
(* socket reads.  bind[i] is the context task i was bound to with run_on,  *)
(* or NoCtx.  size[h] is the size of the frame of h, header included.      *)
(* ovl[i] is the operator new overload the signature of task i selects.    *)
(***************************************************************************)
\* the operator new overloads of task::promise_type: the allocator of the
\* first parameter, of the second parameter, or the function's static pool
Overloads == <<"first", "second", "default">>

\* the chains are made of coroutines of the three kinds of signature, in turn
OverloadPatterns ==
    {[i \in Task |-> Overloads[((i + r) % Len(Overloads)) + 1]] : r \in 1..Len(Overloads)}

Binds(D) ==
    {b \in [Task -> Ctx \cup {NoCtx}] : \A i \in Task : i > D => b[i] = NoCtx}

FrameSizes(D) ==
    {z \in [Handle -> Sizes] : \A i \in Handle : i > D => z[i] = 1}

\* chains run once, with every combination of run_on bindings
ChainsBound ==
    {[D |-> D, bind |-> b, size |-> [h \in Handle |-> 1], pre |-> pre,
      post |-> post, launch |-> l, same |-> s, runs |-> 1, ovl |-> o] :
        D \in 1..MaxDepth, b \in Binds(MaxDepth), pre \in 0..MaxReads,
        post \in 0..MaxReads, l \in {"async_run", "start"}, s \in BOOLEAN,
        o \in OverloadPatterns}

\* chains repeated as the benchmark loop repeats them, with frames of every size
ChainsRepeated ==
    {[D |-> D, bind |-> [i \in Task |-> IF i = 2 /\ sw THEN "B" ELSE NoCtx],
      size |-> z, pre |-> pre, post |-> 0, launch |-> "async_run",
      same |-> TRUE, runs |-> MaxRuns, ovl |-> [i \in Task |-> "first"]] :
        D \in 1..MaxDepth, z \in FrameSizes(MaxDepth), pre \in 1..MaxReads,
        sw \in BOOLEAN}

Chains ==
    {c \in ChainsBound :
        /\ c.bind \in Binds(c.D)
        /\ c.launch = "start" => c.bind[1] = NoCtx}
    \cup {c \in ChainsRepeated : c.size \in FrameSizes(c.D) /\ (c.bind[2] = "B" => c.D >= 2)}

\* the thread that runs the event loop of a context
ThrOf(c) == IF c = "A" \/ chain.same THEN 1 ELSE 2

BodyLen(h) == chain.pre + (IF h < chain.D THEN 1 ELSE 0) + chain.post

\* the operation a coroutine performs at position pc of its body
OpAt(h, pc) ==
    IF h = Root THEN (IF pc = 0 THEN "await" ELSE "final")
    ELSE IF pc < chain.pre THEN "read"
    ELSE IF pc = chain.pre /\ h < chain.D THEN "await"
    ELSE IF pc < BodyLen(h) THEN "read"
    ELSE "final"

\* alloc_header, and the call operator delete makes through it
NoHeader == [dealloc |-> "none", ctx |-> "none"]

NoCall == [fn |-> "none", ctx |-> "none", n |-> 0]

NoFrame ==
    [st |-> "none", pc |-> 0, ex_ |-> NoCtx, caller_ex_ |-> NoCtx,
     continuation_ |-> NoH, has_own_ex_ |-> FALSE, blk |-> 0, aw |-> 0, rs |-> 0,
     hdr |-> NoHeader, total |-> 0, freed |-> NoCall, rd |-> 0, rr |-> 0,
     exc |-> FALSE]

Idle == [h |-> NoH, ctx |-> NoCtx, depth |-> 0, work |-> "none"]

\* a thread of a process that std::terminate has ended
Terminated == [h |-> NoH, ctx |-> NoCtx, depth |-> 0, work |-> "terminated"]

NoObs == [kind |-> "none", by |-> NoH, h |-> NoH, via |-> NoCtx, on |-> NoCtx]

NoCnt == [sys |-> 0, heap |-> 0, io |-> 0]

\* the variant with initial_suspend returning suspend_never
NewFrameEager(b) == [NoFrame EXCEPT !.st = "run", !.blk = b]

\* a task coroutine right after its creation: suspended at initial_suspend
NewFrame(b) == [NoFrame EXCEPT !.st = "susp", !.blk = b]

\* promise_type::operator new: the header written in front of the frame is the
\* deallocation function of the overload and the allocator it allocated from
\* (k is an overload of task::promise_type, or "root" for root_task's)
OperatorNewHeader(k) ==
    [dealloc |-> k,
     ctx |-> IF k \in {"first", "second"} THEN "socket::pool_"
             ELSE IF k = "default" THEN "task::alloc" ELSE "root_task::alloc"]

\* the frame of a coroutine created through overload k with total bytes
Framed(f, k, total) == [f EXCEPT !.hdr = OperatorNewHeader(k), !.total = total]

\* promise_type::operator delete(ptr, size): the call made through the header
\* (OperatorDeleteStatic: the variant going to the function's static pool)
OperatorDeleteStatic(hdr, total) ==
    [fn |-> "default", ctx |-> "task::alloc", n |-> total]

OperatorDelete(hdr, total) == [fn |-> hdr.dealloc, ctx |-> hdr.ctx, n |-> total]

\* run_on(ex, t) / task::set_executor
RunOn(f, ex) == [f EXCEPT !.ex_ = ex, !.has_own_ex_ = TRUE]

\* make_task: the task as its awaiter receives it
MakeTask(i, b) ==
    LET f == Framed(NewFrame(b), chain.ovl[i], chain.size[i])
    IN  IF chain.bind[i] = NoCtx THEN f ELSE RunOn(f, chain.bind[i])

\* transform_awaiter::await_suspend: the context handed to the awaited
\* operation is the promise's ex_ (HandedCallerCtx: the variant handing on
\* caller_ex_)
HandedCallerCtx(f) == f.caller_ex_

HandedCtx(f) == f.ex_

\* task::await_suspend(continuation, caller_ex): whether the task is started
\* inline (StartsInlineAlways: the variant ignoring has_own_ex_), and its
\* promise afterwards (AwaitSuspendInherit: the variant in which the caller's
\* executor replaces the one set with run_on)
StartsInlineAlways(f) == TRUE

StartsInline(f) == ~f.has_own_ex_

AwaitSuspendInherit(f, continuation, caller_ex) ==
    [f EXCEPT !.caller_ex_ = caller_ex, !.continuation_ = continuation, !.ex_ = caller_ex]

AwaitSuspend(f, continuation, caller_ex) ==
    [f EXCEPT !.caller_ex_ = caller_ex,
              !.continuation_ = continuation,
              !.ex_ = IF f.has_own_ex_ THEN @ ELSE caller_ex]

\* final_suspend: the executor the continuation is dispatched through
\* (FinalViaOwn: the variant dispatching through the task's own ex_)
FinalViaOwn(f) == f.ex_

FinalVia(f) == f.caller_ex_

\* io_context::executor::dispatch(h): the handle the caller transfers to
Dispatch(ex, h) == h

\* socket::read_state::operator(): the coroutine resumed and the executor it
\* was obtained through (ReadStateResume: the variant calling h_.resume())
ReadStateResume(op) == [h |-> op.h_, via |-> NoCtx]

ReadStateInvoke(op) == [h |-> Dispatch(op.ex_, op.h_), via |-> op.ex_]

\* socket::do_read_some(h, ex): the read state of the socket afterwards and the
\* number of states allocated by the call (DoReadSomeFresh: the variant
\* allocating a state for every read)
DoReadSomeFresh(op, h, ex) == [op |-> [h_ |-> h, ex_ |-> ex], news |-> 1]

DoReadSome(op, h, ex) == [op |-> [op EXCEPT !.h_ = h, !.ex_ = ex], news |-> 0]

\* the variant of post that drops the work item
PostDropped(qq, ex, w) == qq

\* io_context::executor::post(w)
Post(qq, ex, w) == [qq EXCEPT ![ex] = Append(@, w)]

\* nesting of resume() calls on the stack after await_suspend returns a handle
\* (symmetric transfer: the resumer's frame is left first); NestedResume is
\* the variant calling h.resume() from inside await_suspend
NestedResume(d) == d + 1

SymmetricTransfer(d) == d

Sys(a) == IF a.from = "system" THEN 1 ELSE 0

\* async_run: the executor is moved into the wrapper's promise before the
\* embedded starter is posted (AsyncRunNoStore: the variant leaving ex_ unset)
AsyncRunNoStore(f, ex) == f

AsyncRunStore(f, ex) == [f EXCEPT !.ex_ = ex]

\* async_run: how the call ends, given whether post queued the starter or
\* threw; nothing in async_run catches (AsyncRunSwallows: the variant that does)
AsyncRunSwallows(posted) == "returned"

AsyncRunOutcome(posted) == IF posted THEN "returned" ELSE "threw"

\* one iteration of the benchmark loop: make_task, then async_run (the wrapper
\* frame is created and its embedded starter posted) or task::start.  When
\* post throws, nothing is queued and the exception leaves async_run before
\* root.release(): ~root_task destroys the wrapper's frame, the frame of the
\* task stays as it is, and the loop is left
StartRun ==
    /\ run < chain.runs
    /\ \A t \in Thread : cur[t] = Idle
    /\ \A c \in Ctx : q[c] = <<>>
    /\ \E posted \in BOOLEAN :
        LET a1 == Allocate(pool, 1, chain.size[1])
            t1 == MakeTask(1, a1.blk)
            a0 == Allocate(a1.pool, 1, chain.size[Root])
            root == AsyncRunStore(Framed(NewFrame(a0.blk), "root", chain.size[Root]), "A")
            gone == OperatorDelete(root.hdr, chain.size[Root])
        IN  IF chain.launch = "async_run" /\ posted
            THEN /\ pool' = a0.pool
                 /\ fr' = [h \in Handle |->
                             IF h = 1 THEN t1
                             ELSE IF h = Root THEN root
                             ELSE NoFrame]
                 /\ q' = IF root.ex_ \in Ctx
                         THEN Post(q, root.ex_, [kind |-> "root_starter", h |-> Root])
                         ELSE q
                 /\ cur' = cur
                 /\ cnt' = [NoCnt EXCEPT !.sys = Sys(a1) + Sys(a0)]
                 /\ obs' = [kind |-> "launch", by |-> NoH, h |-> Root,
                            via |-> root.ex_, on |-> NoCtx]
                 /\ run' = run + 1
            ELSE IF chain.launch = "async_run"
            THEN /\ pool' = Deallocate(a0.pool, 1, a0.blk, gone.n)
                 /\ fr' = [h \in Handle |->
                             IF h = 1 THEN t1
                             ELSE IF h = Root
                             THEN [root EXCEPT !.st = "done", !.freed = gone]
                             ELSE NoFrame]
                 /\ q' = q
                 /\ cur' = cur
                 /\ cnt' = [NoCnt EXCEPT !.sys = Sys(a1) + Sys(a0)]
                 /\ obs' = [kind |-> IF AsyncRunOutcome(posted) = "threw"
                                     THEN "launch_threw" ELSE "launch",
                            by |-> NoH, h |-> Root, via |-> root.ex_, on |-> NoCtx]
                 /\ run' = IF AsyncRunOutcome(posted) = "threw" THEN chain.runs
                           ELSE run + 1
            ELSE /\ posted
                 /\ pool' = a1.pool
                 /\ fr' = [h \in Handle |->
                             IF h = 1
                             THEN [t1 EXCEPT !.ex_ = "A", !.caller_ex_ = "A", !.st = "run"]
                             ELSE NoFrame]
                 /\ q' = q
                 /\ cur' = [cur EXCEPT ![1] =
                               [h |-> 1, ctx |-> NoCtx, depth |-> 1, work |-> "none"]]
                 /\ cnt' = [NoCnt EXCEPT !.sys = Sys(a1)]
                 /\ obs' = [kind |-> "start", by |-> NoH, h |-> 1, via |-> NoCtx, on |-> NoCtx]
                 /\ run' = run + 1
    /\ UNCHANGED <<chain, read_op, held, last, xs, affVars, stopVars, refVars, taskVars, ioVars, tpVars, doneVars>>

\* io_context::run on context c: take the oldest work item and invoke it.
\* A starter resumes its coroutine; the read state resumes what dispatch returns.
RunOne(c) ==
    LET t == ThrOf(c)
        w == Head(q[c])
        target == IF w.kind = "read" THEN ReadStateInvoke(read_op).h ELSE w.h
    IN  /\ cur[t] = Idle
        /\ q[c] # <<>>
        /\ q' = [q EXCEPT ![c] = Tail(@)]
        /\ fr' = [fr EXCEPT ![target].st = "run",
                            ![target].rr = @ + (IF w.kind = "read" THEN 1 ELSE 0)]
        /\ cur' = [cur EXCEPT ![t] =
                      [h |-> target, ctx |-> c, depth |-> 1, work |-> w.kind]]
        /\ obs' = [kind |-> w.kind, by |-> NoH, h |-> target,
                   via |-> IF w.kind = "read" THEN ReadStateInvoke(read_op).via ELSE NoCtx,
                   on |-> c]
        /\ UNCHANGED <<chain, run, read_op, cnt, poolVars, affVars, stopVars, refVars, taskVars, ioVars, tpVars, doneVars>>

\* co_await sock.async_read_some(): the read state is filled in and posted to
\* the context handed over by the task, and the thread returns to its loop
StepRead(t) ==
    LET h == cur[t].h
        ex == HandedCtx(fr[h])
    IN  /\ h \in Task
        /\ OpAt(h, fr[h].pc) = "read"
        /\ read_op' = DoReadSome(read_op, h, ex).op
        /\ q' = Post(q, ex, [kind |-> "read", h |-> NoH])
        /\ fr' = [fr EXCEPT ![h].pc = @ + 1, ![h].st = "susp", ![h].rd = @ + 1]
        /\ cur' = [cur EXCEPT ![t] = Idle]
        /\ cnt' = [cnt EXCEPT !.io = @ + 1,
                              !.heap = @ + DoReadSome(read_op, h, ex).news]
        /\ obs' = [kind |-> "post_read", by |-> h, h |-> h, via |-> ex, on |-> cur[t].ctx]
        /\ UNCHANGED <<chain, run, poolVars, affVars, stopVars, refVars, taskVars, ioVars, tpVars, doneVars>>

\* co_await of the child task: the child coroutine is created (except the
\* root's, which async_run was given), then task::await_suspend either
\* returns its handle or posts a heap-allocated starter to its context
StepAwait(t) ==
    LET h == cur[t].h
        c == h + 1
        a == Allocate(pool, t, chain.size[c])
        made == IF h = Root THEN fr[c] ELSE MakeTask(c, a.blk)
        child == AwaitSuspend(made, h, HandedCtx(fr[h]))
        inline == StartsInline(made)
    IN  /\ h \in Handle
        /\ OpAt(h, fr[h].pc) = "await"
        /\ pool' = IF h = Root THEN pool ELSE a.pool
        /\ fr' = [fr EXCEPT ![h].pc = @ + 1, ![h].st = "susp", ![h].aw = @ + 1,
                            ![c] = [child EXCEPT !.st = IF inline THEN "run" ELSE "susp"]]
        /\ q' = IF inline THEN q
                ELSE Post(q, child.ex_, [kind |-> "starter", h |-> c])
        /\ cur' = [cur EXCEPT ![t] =
                      IF inline
                      THEN [@ EXCEPT !.h = c, !.depth = SymmetricTransfer(@)]
                      ELSE Idle]
        /\ cnt' = [cnt EXCEPT !.sys = @ + (IF h = Root THEN 0 ELSE Sys(a)),
                              !.heap = @ + (IF inline THEN 0 ELSE 1)]
        /\ obs' = [kind |-> IF inline THEN "await_inline" ELSE "await_post",
                   by |-> h, h |-> c, via |-> HandedCtx(fr[h]), on |-> cur[t].ctx]
        /\ UNCHANGED <<chain, run, read_op, held, last, xs, affVars, stopVars, refVars, taskVars, ioVars, tpVars, doneVars>>

\* the variant of the final awaiter that leaves the frame suspended
FinalNoDestroy(f, call) == [f EXCEPT !.st = "susp"]

\* the final awaiter's await_suspend: h.destroy(), after the continuation and
\* the caller's executor have been read from the promise
FinalDestroy(f, call) == [f EXCEPT !.st = "done", !.freed = call]

\* final_suspend: a task dispatches its continuation through caller_ex_,
\* destroys its frame and transfers to the handle dispatch returned; the root
\* wrapper destroys its frame and returns the no-op handle
StepFinal(t) ==
    LET h == cur[t].h
        f == fr[h]
        next == IF h # Root /\ f.continuation_ # NoH
                THEN Dispatch(FinalVia(f), f.continuation_)
                ELSE Noop
    IN  /\ h \in Handle
        /\ OpAt(h, f.pc) = "final"
        /\ pool' = Deallocate(pool, t, f.blk, OperatorDelete(f.hdr, chain.size[h]).n)
        /\ fr' = [g \in Handle |->
                    IF g = h
                    THEN FinalDestroy(f, OperatorDelete(f.hdr, chain.size[h]))
                    ELSE IF g = next THEN [fr[g] EXCEPT !.st = "run", !.rs = @ + 1]
                    ELSE fr[g]]
        /\ cur' = [cur EXCEPT ![t] =
                      IF next = Noop THEN Idle
                      ELSE [@ EXCEPT !.h = next, !.depth = SymmetricTransfer(@)]]
        /\ obs' = [kind |-> "final", by |-> h, h |-> next,
                   via |-> IF next = Noop THEN NoCtx ELSE FinalVia(f),
                   on |-> cur[t].ctx]
        /\ UNCHANGED <<chain, run, q, read_op, cnt, held, last, xs, affVars, stopVars, refVars, taskVars, ioVars, tpVars, doneVars>>

\* promise_type::unhandled_exception of task and of root_task
\* (UnhandledExceptionStored: the variant keeping the exception in the
\* promise and going on to final_suspend)
UnhandledExceptionStored == "stored"

UnhandledException == "terminate"

\* an exception escapes the body of the coroutine running on thread t
StepThrow(t) ==
    LET h == cur[t].h
    IN  /\ h \in Handle
        /\ OpAt(h, fr[h].pc) # "final"
        /\ IF UnhandledException = "terminate"
           THEN /\ fr' = [fr EXCEPT ![h].st = "faulted", ![h].exc = TRUE]
                /\ cur' = [u \in Thread |-> Terminated]
                /\ obs' = [kind |-> "terminate", by |-> h, h |-> Noop, via |-> NoCtx,
                           on |-> cur[t].ctx]
           ELSE /\ fr' = [fr EXCEPT ![h].exc = TRUE,
                                    ![h].pc = IF h = Root THEN 1 ELSE BodyLen(h)]
                /\ cur' = cur
                /\ obs' = [kind |-> "stored", by |-> h, h |-> h, via |-> NoCtx,
                           on |-> cur[t].ctx]
        /\ UNCHANGED <<chain, run, q, read_op, cnt, poolVars, affVars, stopVars, refVars, taskVars, ioVars, tpVars, doneVars>>

(***************************************************************************)
(* Affine tasks                                                            *)
(*                                                                         *)
(* One my_task whose dispatcher is the simple_executor "ex", run as        *)
(* run_task_full runs it.  Its body awaits a sequence of operations:       *)
(* affine_async_op (protocol-aware), legacy_async_op and yield_awaitable   *)
(* (both unaware).  The operations complete on the thread of g_pool.       *)
(***************************************************************************)
OpKinds == {"affine", "legacy", "yield"}

Progs == UNION {[1..n -> OpKinds] : n \in 0..MaxOps}

\* affine_awaitable<A, executor_context>: affine_async_op and
\* affine_async_read are, and so is a task (affine_task::await_suspend(h, d))
Aware(op) == op \in {"affine", "child"}

\* await_transform: the awaiter a co_await expression is turned into
\* (AwaitTransformDirect: the variant awaiting an unaware operation as it is)
AwaitTransformDirect(op) == IF Aware(op) THEN "affine_awaiter" ELSE "direct"

AwaitTransform(op) == IF Aware(op) THEN "affine_awaiter" ELSE "make_affine"

NoTask ==
    [prog |-> <<>>, st |-> "none", pc |-> 1, dispatcher_ |-> NoCtx, on |-> "none",
     done |-> FALSE, handed |-> <<>>, ran |-> <<>>]

NewTask(p) ==
    [NoTask EXCEPT !.prog = p, !.st = "created",
                   !.handed = [i \in 1..Len(p) |-> "-"],
                   !.ran = [i \in 1..Len(p) |-> "-"]]

\* simple_executor::dispatch / thread_pool::dispatch: push_back
PushBack(queue, w) == Append(queue, w)

\* resume_context::operator()(h): the resumption is dispatched to the scheduler
ViaDispatcher(queue, d) == IF d = "ex" THEN PushBack(queue, "resume") ELSE queue

\* make_affine(awaitable, dispatcher): the dispatcher through which the
\* trampoline resumes the awaiting coroutine once the awaitable has completed
Trampoline(d) == d

\* run_task_full: make_task, set_executor, set_done_flag, ex.dispatch(start)
AffLaunch ==
    /\ at.st = "created"
    /\ at' = [at EXCEPT !.dispatcher_ = "ex", !.st = "susp"]
    /\ exq' = PushBack(exq, "start")
    /\ UNCHANGED <<plq, poolVars, coVars, stopVars, refVars, taskVars, ioVars, tpVars, doneVars>>

\* simple_executor::run: take the item at the back of the queue and call it
ExecutorRun ==
    /\ exq # <<>>
    /\ at.on # "ex"
    /\ exq' = SubSeq(exq, 1, Len(exq) - 1)
    /\ at' = [at EXCEPT !.on = "ex", !.st = "run",
                        !.ran = IF exq[Len(exq)] = "resume"
                                THEN [@ EXCEPT ![at.pc - 1] = "ex"] ELSE @]
    /\ UNCHANGED <<plq, poolVars, coVars, stopVars, refVars, taskVars, ioVars, tpVars, doneVars>>

\* the task runs on thread th up to its next suspension: the co_await of the
\* next operation of its body, or final_suspend
AffStep(th) ==
    /\ at.st = "run"
    /\ at.on = th
    /\ IF at.pc > Len(at.prog)
       THEN /\ at' = [at EXCEPT !.done = TRUE, !.st = "final", !.on = "none"]
            /\ UNCHANGED <<exq, plq>>
       ELSE LET op == at.prog[at.pc]
                tier == AwaitTransform(op)
                d == at.dispatcher_
                susp == [at EXCEPT !.pc = @ + 1, !.st = "susp", !.on = "none"]
            IN  CASE tier = "affine_awaiter" ->
                       \* affine_async_op::await_suspend(h, d)
                       /\ at' = [susp EXCEPT !.handed[at.pc] = d]
                       /\ plq' = PushBack(plq, [kind |-> "d(h)", d |-> d])
                       /\ exq' = exq
                  [] tier = "make_affine" /\ op = "legacy" ->
                       \* the trampoline awaits legacy_async_op
                       /\ at' = susp
                       /\ plq' = PushBack(plq, [kind |-> "trampoline", d |-> Trampoline(d)])
                       /\ exq' = exq
                  [] tier = "make_affine" /\ op = "yield" ->
                       \* yield_awaitable resumes the trampoline at once, which
                       \* dispatches the task through d
                       /\ at' = susp
                       /\ exq' = ViaDispatcher(exq, Trampoline(d))
                       /\ plq' = plq
                  [] tier = "direct" /\ op = "legacy" ->
                       /\ at' = susp
                       /\ plq' = PushBack(plq, [kind |-> "h.resume", d |-> NoCtx])
                       /\ exq' = exq
                  [] tier = "direct" /\ op = "yield" ->
                       /\ at' = [at EXCEPT !.pc = @ + 1, !.ran[at.pc] = th]
                       /\ UNCHANGED <<exq, plq>>
    /\ UNCHANGED <<poolVars, coVars, stopVars, refVars, taskVars, ioVars, tpVars, doneVars>>

\* thread_pool::worker: take the item at the back of the queue and call it
PoolRun ==
    /\ plq # <<>>
    /\ at.on # "pool"
    /\ plq' = SubSeq(plq, 1, Len(plq) - 1)
    /\ LET w == plq[Len(plq)]
       IN  IF w.kind = "h.resume"
           THEN /\ at' = [at EXCEPT !.on = "pool", !.st = "run", !.ran[at.pc - 1] = "pool"]
                /\ exq' = exq
           ELSE /\ exq' = ViaDispatcher(exq, w.d)
                /\ at' = at
    /\ UNCHANGED <<poolVars, coVars, stopVars, refVars, taskVars, ioVars, tpVars, doneVars>>

(***************************************************************************)
(* Stoppable tasks                                                         *)
(*                                                                         *)
(* A chain of tasks whose promises are stoppable_promise: each task but    *)
(* the innermost awaits the next one, the innermost awaits a sequence of   *)
(* reads, stoppable (async_read_awaitable) or legacy; the outermost may    *)
(* await reads before it awaits its child.  Every co_await goes through    *)
(* stoppable_awaiter.  ops lists the awaits in the order the chain reaches *)
(* them.  A body either catches operation_canceled and goes on after the   *)
(* await that threw, or ends with the exception.  The token given to the   *)
(* outermost task is "st"; "none" is a default-constructed std::stop_token,*)
(* on which stop is never requested.                                       *)
(***************************************************************************)
ReadKinds == {"stoppable", "legacy"}

\* stoppable_awaitable<Awaitable, StopToken>
Stoppable(op) == op \in {"stoppable", "task"}

\* the reads the outermost task awaits before its child: none when it has no
\* child
Before(d) ==
    IF d = 1 THEN {<<>>} ELSE UNION {[1..n -> ReadKinds] : n \in 0..MaxBefore}

StopChains ==
    UNION {{[ops |-> b \o [i \in 1..(d - 1) |-> "task"] \o r, catch |-> c, preset |-> ps] :
               b \in Before(d), r \in UNION {[1..n -> ReadKinds] : n \in 1..MaxOps},
               c \in BOOLEAN, ps \in BOOLEAN} : d \in 1..MaxDepth}

\* the task whose body holds the await at position i: 1 is the outermost
Level(ops, i) == 1 + Cardinality({j \in 1..(i - 1) : ops[j] = "task"})

NoStop ==
    [ops |-> <<>>, catch |-> FALSE, preset |-> FALSE, stop |-> FALSE, pc |-> 1,
     phase |-> "none", saw |-> <<>>, given |-> <<>>, observed |-> <<>>,
     outcome |-> <<>>, stop_token_ |-> <<>>, token |-> <<>>, started |-> <<>>,
     callback_ |-> <<>>, cancel |-> <<>>, resumes |-> <<>>,
     requested |-> [pc |-> 0, phase |-> "none"]]

\* run_with_token(st, task): the outermost promise is given st; the promises
\* of the tasks not yet awaited hold a default-constructed token
NewStop(c) ==
    [NoStop EXCEPT !.ops = c.ops, !.catch = c.catch, !.preset = c.preset,
                   !.stop = c.preset, !.phase = "body",
                   !.saw = [i \in 1..Len(c.ops) |-> "-"],
                   !.given = [i \in 1..Len(c.ops) |-> FALSE],
                   !.observed = [i \in 1..Len(c.ops) |-> "-"],
                   !.outcome = [i \in 1..Len(c.ops) |-> "-"],
                   !.stop_token_ = [l \in 1..Level(c.ops, Len(c.ops)) |->
                                       IF l = 1 THEN "st" ELSE "none"],
                   !.token = [i \in 1..Len(c.ops) |-> "-"],
                   !.started = [i \in 1..Len(c.ops) |-> FALSE],
                   !.callback_ = [i \in 1..Len(c.ops) |-> FALSE],
                   !.cancel = [i \in 1..Len(c.ops) |-> FALSE],
                   !.resumes = [i \in 1..Len(c.ops) |-> 0]]

\* stop_token::stop_requested
StopRequested(x, tk) == tk = "st" /\ x.stop

\* the variant of the stoppable path that does what the legacy path does
AsyncReadSuspendLegacy(stop) ==
    [resume |-> FALSE, callback_ |-> FALSE, async_read |-> TRUE]

\* async_read_awaitable::await_suspend(h, st): what it does, given what
\* st.stop_requested() answers
AsyncReadSuspend(stop) ==
    IF stop
    THEN [resume |-> TRUE, callback_ |-> FALSE, async_read |-> FALSE]
    ELSE [resume |-> FALSE, callback_ |-> TRUE, async_read |-> TRUE]

\* the variant of the task's await_suspend that is its legacy path
TaskAwaitSuspendLegacy(st) == "none"

\* task::await_suspend(caller, st): the token stored in the promise of the
\* awaited task before its body starts
TaskAwaitSuspend(st) == st

TF(b) == IF b THEN "T" ELSE "F"

\* stoppable_awaiter::await_ready (AwaitReadyInner: the variant that only
\* forwards to the wrapped awaitable)
AwaitReadyInner(stop, inner) == inner

AwaitReady(stop, inner) == IF stop THEN TRUE ELSE inner

\* stoppable_awaiter::await_resume
AwaitResume(stop) == IF stop THEN "canceled" ELSE "value"

\* the await at position i ends with out: a value lets the body go on; the
\* exception is caught by the awaiting body or ends the chain
EndAwait(x, i, out) ==
    IF out = "value"
    THEN [x EXCEPT !.outcome[i] = out, !.pc = i + 1, !.phase = "body"]
    ELSE IF ~x.catch
    THEN [x EXCEPT !.outcome[i] = out, !.phase = "failed"]
    ELSE IF x.ops[i] = "task"
    THEN [x EXCEPT !.outcome[i] = out, !.phase = "done"]
    ELSE [x EXCEPT !.outcome[i] = out, !.pc = i + 1, !.phase = "body"]

\* co_await: await_transform wraps the operation with the promise's token and
\* the wrapper's await_ready is asked; when ready, await_resume follows at once
StopAwaitReady ==
    LET i == sp.pc
        tk == sp.stop_token_[Level(sp.ops, i)]
        r == AwaitReady(StopRequested(sp, tk), FALSE)
        x == [sp EXCEPT !.saw[i] = TF(r), !.token[i] = tk]
    IN  /\ sp.phase = "body"
        /\ i <= Len(sp.ops)
        /\ sp' = IF r THEN EndAwait(x, i, AwaitResume(StopRequested(sp, tk)))
                 ELSE [x EXCEPT !.phase = "suspending"]
        /\ UNCHANGED <<poolVars, coVars, affVars, refVars, taskVars, ioVars, tpVars, doneVars>>

\* stoppable_awaiter::await_suspend: a stoppable operation gets the token.
\* async_read_awaitable checks it and resumes the caller at once or starts the
\* read; a task stores it and starts its body; a legacy read just starts
StopAwaitSuspend ==
    LET i == sp.pc
        op == sp.ops[i]
        stop == StopRequested(sp, sp.token[i])
    IN  /\ sp.phase = "suspending"
        /\ sp' =
             IF op = "stoppable"
             THEN LET d == AsyncReadSuspend(stop)
                      x == [sp EXCEPT !.given[i] = TRUE, !.observed[i] = TF(stop),
                                      !.callback_[i] = d.callback_,
                                      !.started[i] = d.async_read,
                                      !.resumes[i] = IF d.resume THEN @ + 1 ELSE @]
                  IN  IF d.async_read THEN [x EXCEPT !.phase = "pending"]
                      ELSE EndAwait(x, i, AwaitResume(stop))
             ELSE IF op = "task"
             THEN [sp EXCEPT !.given[i] = TRUE, !.outcome[i] = "started",
                             !.stop_token_[Level(sp.ops, i) + 1] =
                                 TaskAwaitSuspend(sp.token[i]),
                             !.pc = i + 1, !.phase = "body"]
             ELSE [sp EXCEPT !.started[i] = TRUE, !.phase = "pending"]
        /\ UNCHANGED <<poolVars, coVars, affVars, refVars, taskVars, ioVars, tpVars, doneVars>>

\* the read completes (or was cancelled) and resumes the awaiting coroutine
StopComplete ==
    /\ sp.phase = "pending"
    /\ sp' = EndAwait([sp EXCEPT !.resumes[sp.pc] = @ + 1], sp.pc,
                      AwaitResume(StopRequested(sp, sp.token[sp.pc])))
    /\ UNCHANGED <<poolVars, coVars, affVars, refVars, taskVars, ioVars, tpVars, doneVars>>

\* stop_source::request_stop, from any thread at any time: the callback a
\* pending read registered calls sock_.cancel()
StopRequest ==
    /\ sp.phase \in {"body", "suspending", "pending"}
    /\ ~sp.stop
    /\ sp' = [sp EXCEPT !.stop = TRUE,
                        !.requested = [pc |-> sp.pc, phase |-> sp.phase],
                        !.cancel = [i \in 1..Len(sp.ops) |->
                                       sp.phase = "pending" /\ i = sp.pc
                                       /\ sp.callback_[i]]]
    /\ UNCHANGED <<poolVars, coVars, affVars, refVars, taskVars, ioVars, tpVars, doneVars>>

\* the innermost body has returned: every task completes into its awaiter,
\* whose await_resume checks the token once more
StopFinish ==
    /\ sp.phase = "body"
    /\ sp.pc > Len(sp.ops)
    /\ sp' = [sp EXCEPT
                !.outcome = [i \in 1..Len(sp.ops) |->
                                IF @[i] = "started"
                                THEN AwaitResume(StopRequested(sp, sp.token[i]))
                                ELSE @[i]],
                !.phase = IF /\ ~sp.catch
                             /\ \E i \in 1..Len(sp.ops) :
                                   /\ sp.outcome[i] = "started"
                                   /\ StopRequested(sp, sp.token[i])
                          THEN "failed" ELSE "done"]
    /\ UNCHANGED <<poolVars, coVars, affVars, refVars, taskVars, ioVars, tpVars, doneVars>>

(***************************************************************************)
(* executor_ref                                                            *)
(*                                                                         *)
(* Executors of several concrete types; an executor is an object (type and *)
(* address) whose value, what its own operator== compares, is rf.val.      *)
(* A reference holds the address of the operation table of the type it was *)
(* made from and the address of the executor.                              *)
(***************************************************************************)
ExecTypes == {"E1", "E2"}

Executors == [type : ExecTypes, addr : 1..MaxExec]

Values == {"x", "y"}

\* &ops_for<Executor>: one table for each type
OpsFor(type) == type

\* executor_ref(Executor const& ex)
ExecutorRef(e) == [ops_ |-> OpsFor(e.type), ex_ |-> e]

\* the variant of operator== asking the executors first
RefEqualsInstancesFirst(a, b, val) ==
    IF val[a.ex_] # val[b.ex_]
    THEN [res |-> FALSE, did |-> <<"equals">>]
    ELSE [res |-> a.ops_ = b.ops_, did |-> <<"equals", "ops_ == other.ops_">>]

\* executor_ref::operator==: the result and the comparisons made, in order
RefEquals(a, b, val) ==
    IF a.ops_ # b.ops_
    THEN [res |-> FALSE, did |-> <<"ops_ == other.ops_">>]
    ELSE [res |-> val[a.ex_] = val[b.ex_], did |-> <<"ops_ == other.ops_", "equals">>]

NoRef == [a |-> "none", b |-> "none", val |-> <<>>, res |-> FALSE, did |-> <<>>]

\* a == b
RefCompare ==
    /\ rf.val # <<>>
    /\ rf.did = <<>>
    /\ LET r == RefEquals(rf.a, rf.b, rf.val)
       IN  rf' = [rf EXCEPT !.res = r.res, !.did = r.did]
    /\ UNCHANGED <<poolVars, coVars, affVars, stopVars, taskVars, ioVars, tpVars, doneVars>>

\* b = executor_ref(e)
RefRebind(e) ==
    /\ rf.val # <<>>
    /\ rf.did # <<>>
    /\ rf.b # ExecutorRef(e)
    /\ rf' = [rf EXCEPT !.b = ExecutorRef(e), !.res = FALSE, !.did = <<>>]
    /\ UNCHANGED <<poolVars, coVars, affVars, stopVars, taskVars, ioVars, tpVars, doneVars>>

(***************************************************************************)
(* task<T, run_loop>                                                       *)
(*                                                                         *)
(* The task of task.hpp on the run_loop of demo_affine_task.cpp: an outer  *)
(* task whose body awaits affine_async_read, legacy_timer and inner tasks, *)
(* or throws; an inner task whose body awaits affine_async_read or throws. *)
(* The outer task is run as run_and_count_full runs it (scheduler and done *)
(* flag set, then start), or is started with neither set, or is awaited by *)
(* a coroutine that has no dispatcher (affine_task::await_suspend(caller));*)
(* without a dispatcher its body awaits nothing.  The thread "loop" is the *)
(* one that starts the task and calls run_loop::run; "pool" is a thread of *)
(* g_pool.  halo tells whether the build elides the frame of the outermost *)
(* coroutine.                                                              *)
(***************************************************************************)
Frames == {"outer", "inner"}

OuterOps == {"affine", "legacy", "child", "throw"}

InnerOps == {"affine", "throw"}

Launches == {"run_and_count_full", "start", "await_suspend(caller)"}

NoPromise ==
    [st |-> "none", pc |-> 1, dispatcher_ |-> "none", continuation_ |-> "none",
     done_flag_ |-> FALSE, exception_ |-> FALSE, value_ |-> FALSE, aw |-> "-",
     raise |-> FALSE]

NoRun ==
    [launch |-> "none", outer |-> <<>>, inner |-> <<>>, halo |-> FALSE,
     f |-> [h \in Frames |-> NoPromise], on |-> [h |-> "none", th |-> "none"],
     done |-> FALSE, caller |-> "none", allocs |-> 0, rq |-> <<>>, pq |-> <<>>,
     ran |-> {}, fin |-> [h \in Frames |-> <<>>], cont |-> [h \in Frames |-> 0],
     got |-> [h \in Frames |-> "-"], completions |-> 0, empty |-> FALSE]

\* operator new of a coroutine frame: the outermost frame may be elided, the
\* frame of a nested coroutine is allocated
FrameAllocs(h, halo) == IF h = "outer" /\ halo THEN 0 ELSE 1

\* make_task(): the frame of the outer task
NewRun(l, o, i, halo) ==
    [NoRun EXCEPT !.launch = l, !.outer = o, !.inner = i, !.halo = halo,
                  !.f["outer"].st = "created",
                  !.allocs = FrameAllocs("outer", halo),
                  !.caller = IF l = "await_suspend(caller)" THEN "run" ELSE "none"]

TaskBody(x, h) == IF h = "outer" THEN x.outer ELSE x.inner

\* the variant of dispatch whose queue allocates for every item
QueueDispatchAllocating(queue, w) == [queue |-> Append(queue, w), allocs |-> 1]

\* run_loop::dispatch / thread_pool::dispatch: push_back of a small_function
\* into a vector with reserved storage
QueueDispatch(queue, w) ==
    [queue |-> Append(queue, w),
     allocs |-> IF Len(queue) < QueueReserve THEN 0 ELSE 1]

\* the variant of affine_async_read whose completion resumes the handle
AffineAsyncReadInline(h) == [call |-> "h.resume", h |-> h, for |-> h]

\* affine_async_read::await_suspend(h, d): what is given to the pool
AffineAsyncRead(h) == [call |-> "d(h)", h |-> h, for |-> h]

\* legacy_timer::await_suspend(h), h being make_affine's trampoline that
\* stands for the task for
LegacyTimer(for) == [call |-> "h.resume", h |-> "trampoline", for |-> for]

\* affine_task::await_suspend(caller, d)
AffineTaskAwaitSuspend(caller, d) == [dispatcher_ |-> d, continuation_ |-> caller]

\* the variant of final_suspend that always transfers to the continuation
FinalSuspendTransfer(p) ==
    [did |-> <<"return continuation_">>, dispatch |-> "none",
     ret |-> IF p.continuation_ # "none" THEN p.continuation_ ELSE "noop"]

\* affine_promise::final_suspend, final_awaiter::await_suspend: what it does,
\* in order, the handle it gives to the dispatcher and the handle it returns
FinalSuspend(p) ==
    LET flag == IF p.done_flag_ THEN <<"*done_flag_ = true">> ELSE <<>>
    IN  IF p.dispatcher_ # "none"
        THEN [did |-> flag \o (IF p.continuation_ # "none"
                               THEN <<"dispatcher_(continuation_)">> ELSE <<>>)
                          \o <<"return noop_coroutine">>,
              dispatch |-> p.continuation_, ret |-> "noop"]
        ELSE IF p.continuation_ # "none"
        THEN [did |-> flag \o <<"return continuation_">>,
              dispatch |-> "none", ret |-> p.continuation_]
        ELSE [did |-> flag \o <<"return noop_coroutine">>,
              dispatch |-> "none", ret |-> "noop"]

\* the variant of result() that never rethrows
ResultValue(p) == "value"

\* task_promise::result
Result(p) == IF p.exception_ THEN "rethrown" ELSE "value"

\* coroutine h is resumed on thread th by by.  A task that awaited an inner
\* task goes through await_resume at once: result() gives the value or
\* rethrows into the body, and the inner task's frame is destroyed with the
\* temporary
Resume(x, h, th, by) ==
    IF h = "caller"
    THEN [x EXCEPT !.caller = "resumed", !.got["outer"] = Result(x.f["outer"]),
                   !.on = [h |-> "none", th |-> "none"]]
    ELSE LET y == [x EXCEPT !.ran = @ \cup {[h |-> h, th |-> th, by |-> by,
                                            after |-> x.f[h].aw]},
                            !.on = [h |-> h, th |-> th],
                            !.f[h].st = "run", !.f[h].aw = "-"]
         IN  IF x.f[h].aw = "child"
             THEN [y EXCEPT !.got["inner"] = Result(x.f["inner"]),
                            !.f["inner"].st = "destroyed",
                            !.f[h].raise = (Result(x.f["inner"]) = "rethrown")]
             ELSE y

\* the body of h ends on thread th, by co_return or with an exception that
\* unhandled_exception stores, and final_suspend follows
Complete(x, h, exc, th) ==
    LET p == [x.f[h] EXCEPT !.exception_ = exc, !.value_ = ~exc, !.raise = FALSE,
                            !.st = "final"]
        fs == FinalSuspend(p)
        d == QueueDispatch(x.rq, fs.dispatch)
        y == [x EXCEPT !.f[h] = p,
                       !.done = @ \/ p.done_flag_,
                       !.fin[h] = fs.did,
                       !.on = [h |-> "none", th |-> "none"],
                       !.cont[h] = @ + (IF fs.dispatch # "none" THEN 1 ELSE 0)
                                     + (IF fs.ret # "noop" THEN 1 ELSE 0),
                       !.rq = IF fs.dispatch # "none" THEN d.queue ELSE @,
                       !.allocs = IF fs.dispatch # "none" THEN @ + d.allocs ELSE @]
    IN  IF fs.ret # "noop" THEN Resume(y, fs.ret, th, "transfer") ELSE y

\* co_await of op in the body of h on thread th: await_transform, then the
\* awaiter's await_suspend.  await_transform evaluates *this->dispatcher_:
\* with an empty optional nothing is defined from there on
Await(x, h, op, th) ==
    LET tier == AwaitTransform(op)
        susp == [x EXCEPT !.f[h].st = "susp", !.f[h].aw = op, !.f[h].pc = @ + 1,
                          !.on = [h |-> "none", th |-> "none"]]
    IN  IF x.f[h].dispatcher_ = "none"
        THEN [x EXCEPT !.f[h].st = "undefined", !.empty = TRUE,
                       !.on = [h |-> "none", th |-> "none"]]
        ELSE IF op = "child"
        THEN \* affine_awaiter -> affine_task::await_suspend(h, *dispatcher_):
             \* the inner task starts on this thread
             LET s == AffineTaskAwaitSuspend(h, x.f[h].dispatcher_)
             IN  [susp EXCEPT !.f["inner"] =
                                 [NoPromise EXCEPT !.st = "run",
                                                   !.dispatcher_ = s.dispatcher_,
                                                   !.continuation_ = s.continuation_],
                              !.allocs = @ + FrameAllocs("inner", x.halo),
                              !.fin["inner"] = <<>>, !.cont["inner"] = 0,
                              !.got["inner"] = "-",
                              !.on = [h |-> "inner", th |-> th],
                              !.ran = @ \cup {[h |-> "inner", th |-> th,
                                               by |-> "transfer", after |-> "-"]}]
        ELSE IF tier = "affine_awaiter"
        THEN LET d == QueueDispatch(x.pq, AffineAsyncRead(h))
             IN  [susp EXCEPT !.pq = d.queue, !.allocs = @ + d.allocs]
        ELSE \* make_affine: the frame of the trampoline, which awaits the timer
             LET d == QueueDispatch(x.pq, LegacyTimer(h))
             IN  [susp EXCEPT !.pq = d.queue, !.allocs = @ + 1 + d.allocs]

\* run_and_count_full: set_scheduler, set_done_flag, start; or start alone;
\* or a coroutine without a dispatcher awaits the task
TaskLaunch ==
    /\ tt.f["outer"].st = "created"
    /\ LET x == [tt EXCEPT !.f["outer"].dispatcher_ =
                               IF tt.launch = "run_and_count_full" THEN "loop" ELSE "none",
                           !.f["outer"].done_flag_ = (tt.launch = "run_and_count_full"),
                           !.f["outer"].continuation_ =
                               IF tt.launch = "await_suspend(caller)" THEN "caller" ELSE "none",
                           !.caller = IF tt.launch = "await_suspend(caller)"
                                      THEN "susp" ELSE @]
       IN  tt' = [x EXCEPT !.f["outer"].st = "run",
                           !.on = [h |-> "outer", th |-> "loop"],
                           !.ran = @ \cup {[h |-> "outer", th |-> "loop",
                                            by |-> "start", after |-> "-"]}]
    /\ UNCHANGED <<poolVars, coVars, affVars, stopVars, refVars, ioVars, tpVars, doneVars>>

\* the running task goes on to its next co_await, or to its end
TaskStep ==
    LET h == tt.on.h
        p == tt.f[h]
        body == TaskBody(tt, h)
    IN  /\ h \in Frames
        /\ p.st = "run"
        /\ tt' = IF p.raise \/ p.pc > Len(body)
                 THEN Complete(tt, h, p.raise, tt.on.th)
                 ELSE IF body[p.pc] = "throw"
                 THEN Complete(tt, h, TRUE, tt.on.th)
                 ELSE Await(tt, h, body[p.pc], tt.on.th)
        /\ UNCHANGED <<poolVars, coVars, affVars, stopVars, refVars, ioVars, tpVars, doneVars>>

\* thread_pool::worker: take the item at the back and call it.  d(h) is
\* task_context::operator()(h): sched_->dispatch of the resumption; the
\* trampoline, resumed here, does the same for the task it stands for
TaskPoolRun ==
    /\ tt.pq # <<>>
    /\ LET w == tt.pq[Len(tt.pq)]
           x == [tt EXCEPT !.pq = SubSeq(@, 1, Len(@) - 1),
                           !.completions = @ + 1]
           d == QueueDispatch(x.rq, w.for)
       IN  tt' = IF w.call = "d(h)" \/ w.h = "trampoline"
                 THEN [x EXCEPT !.rq = d.queue, !.allocs = @ + d.allocs]
                 ELSE Resume(x, w.h, "pool", "pool")
    /\ UNCHANGED <<poolVars, coVars, affVars, stopVars, refVars, ioVars, tpVars, doneVars>>

\* run_loop::run_one: take the item at the back and call it
TaskLoopRun ==
    /\ tt.rq # <<>>
    /\ tt.on.h = "none"
    /\ tt' = Resume([tt EXCEPT !.rq = SubSeq(@, 1, Len(@) - 1)],
                    tt.rq[Len(tt.rq)], "loop", "loop.run")
    /\ UNCHANGED <<poolVars, coVars, affVars, stopVars, refVars, ioVars, tpVars, doneVars>>

\* the done flag is seen set: result() is asked and the task goes out of scope
TaskResult ==
    /\ tt.launch = "run_and_count_full"
    /\ tt.done
    /\ tt.f["outer"].st = "final"
    /\ tt' = [tt EXCEPT !.got["outer"] = Result(tt.f["outer"]),
                        !.f["outer"].st = "destroyed"]
    /\ UNCHANGED <<poolVars, coVars, affVars, stopVars, refVars, ioVars, tpVars, doneVars>>

(***************************************************************************)
(* Composed operations                                                     *)
(*                                                                         *)
(* One row of bench_test::run: an operation (read_some, read, request,     *)
(* session) on a stream (socket, tls_stream) is run once with callbacks    *)
(* and io_context::run, then once as a coroutine, and the two counts of    *)
(* I/O operations are compared.  A callback handler is the sequence of the *)
(* composed operations it is nested in, innermost first, ending with the   *)
(* lambda of bench; a coroutine chain is the sequence of its frames,       *)
(* innermost first, ending with the lambda of bench_co.  The cache of      *)
(* io_op states is empty at the start or holds a block left by an earlier  *)
(* row.                                                                    *)
(***************************************************************************)
BenchOps == {"read_some", "read", "request", "session"}

Streams == {"socket", "tls_stream"}

WarmSizes == {1, 8}

NoBench ==
    [op |-> "none", stream |-> "none", phase |-> "none", started |-> FALSE,
     queue |-> <<>>, g_io_count |-> 0, completed |-> 0, count |-> 0,
     cache |-> [ptr_ |-> 0, size_ |-> 0], g_alloc_count |-> 0, blocks |-> 0,
     alloc |-> [blk |-> 0, from |-> "-", freed |-> 0], stack |-> <<>>,
     ios |-> [cb |-> 0, co |-> 0], counts |-> [cb |-> 0, co |-> 0]]

\* the cache holds block 1 of size warm, or nothing when warm is 0
NewBench(op, stream, warm) ==
    [NoBench EXCEPT !.op = op, !.stream = stream, !.phase = "cb",
                    !.cache = IF warm = 0 THEN @ ELSE [ptr_ |-> 1, size_ |-> warm],
                    !.blocks = IF warm = 0 THEN 0 ELSE 1]

\* sizeof(io_op<Executor, Handler>): it grows with the nesting of the handler
SizeOf(hs) == 1 + Len(hs)

\* op_cache::allocate: the block, and whether ::operator new was called
OpCacheAllocate(c, n, fresh) ==
    IF c.ptr_ # 0 /\ c.size_ >= n
    THEN [cache |-> [c EXCEPT !.ptr_ = 0], blk |-> c.ptr_, from |-> "cache"]
    ELSE [cache |-> c, blk |-> fresh, from |-> "new"]

\* op_cache::deallocate
OpCacheDeallocate(c, p, n) ==
    IF c.ptr_ = 0 \/ n >= c.size_ THEN [ptr_ |-> p, size_ |-> n] ELSE c

\* the variant of the loop test that lets one more call through
MoreInclusive(count_, calls) == count_ <= calls

\* if(count_++ < calls)
More(count_, calls) == count_ < calls

\* cb::socket::async_read_some(handler): count, new io_op, post
SocketAsyncReadSome(x, hs) ==
    LET a == OpCacheAllocate(x.cache, SizeOf(hs), x.blocks + 1)
    IN  [x EXCEPT !.g_io_count = @ + 1,
                  !.cache = a.cache,
                  !.blocks = IF a.from = "new" THEN @ + 1 ELSE @,
                  !.g_alloc_count = IF a.from = "new" THEN @ + 1 ELSE @,
                  !.alloc = [blk |-> a.blk, from |-> a.from, freed |-> x.alloc.freed],
                  !.queue = Append(@, [kind |-> "io_op", handler_ |-> hs,
                                       blk |-> a.blk, n |-> SizeOf(hs)])]

Calls(k) ==
    CASE k = "read_op" -> ReadCalls
      [] k = "request_op" -> RequestCalls
      [] k = "session_op" -> SessionCalls
      [] k = "tls_read_op" -> TlsCalls

RECURSIVE CbInvoke(_, _)
\* the call of a handler: operator() of the composed operation at its head,
\* or the lambda of bench
CbInvoke(x, hs) ==
    LET top == Head(hs)
        next == <<[top EXCEPT !.count_ = @ + 1]>> \o Tail(hs)
    IN  IF top.k = "lambda"
        THEN [x EXCEPT !.count = @ + 1]
        ELSE IF ~More(top.count_, Calls(top.k))
        THEN \* handler_(), or for tls_read_op dispatch(handler_)
             CbInvoke(x, Tail(hs))
        ELSE IF top.k = "session_op"
        THEN \* async_request(*stream_, std::move(*this))
             CbInvoke(x, <<[k |-> "request_op", count_ |-> 0]>> \o next)
        ELSE IF top.k = "tls_read_op" \/ x.stream = "socket"
        THEN SocketAsyncReadSome(x, next)
        ELSE \* tls_stream::async_read_some(std::move(*this))
             CbInvoke(x, <<[k |-> "tls_read_op", count_ |-> 0]>> \o next)

\* the call bench makes: op(sock, [&count]{ ++count; })
CbHandler(op) ==
    IF op = "read_some" THEN <<[k |-> "lambda", count_ |-> 0]>>
    ELSE <<[k |-> IF op = "read" THEN "read_op"
                  ELSE IF op = "request" THEN "request_op" ELSE "session_op",
            count_ |-> 0],
           [k |-> "lambda", count_ |-> 0]>>

CbCall(x) ==
    IF x.op = "read_some"
    THEN IF x.stream = "socket" THEN SocketAsyncReadSome(x, CbHandler(x.op))
         ELSE CbInvoke(x, <<[k |-> "tls_read_op", count_ |-> 0]>> \o CbHandler(x.op))
    ELSE CbInvoke(x, CbHandler(x.op))

\* the number of times a coroutine awaits, and what it awaits
CoCalls(fn) ==
    CASE fn = "async_read" -> CoReadCalls
      [] fn = "async_request" -> CoRequestCalls
      [] fn = "async_session" -> CoSessionCalls
      [] OTHER -> 1

CoAwaits(fn, op) ==
    CASE fn = "lambda" ->
           IF op = "read_some" THEN "async_read_some" ELSE "async_" \o op
      [] fn = "async_session" -> "async_request"
      [] fn = "tls_stream::async_read_some" -> "socket::async_read_some"
      [] OTHER -> "async_read_some"

RECURSIVE CoRun(_, _)
\* the coroutine at the head of the chain runs up to the next suspension of
\* the chain; resumed tells that the operation it awaited has completed
CoRun(x, resumed) ==
    LET top == Head(x.stack)
        i == IF resumed THEN top.i + 1 ELSE top.i
        y == [x EXCEPT !.stack = <<[top EXCEPT !.i = i]>> \o Tail(@)]
        aw == CoAwaits(top.fn, x.op)
    IN  IF i >= CoCalls(top.fn)
        THEN IF top.fn = "lambda"
             THEN [y EXCEPT !.count = @ + 1, !.stack = <<>>]
             ELSE CoRun([y EXCEPT !.stack = Tail(@)], TRUE)
        ELSE IF aw = "socket::async_read_some"
                  \/ (aw = "async_read_some" /\ x.stream = "socket")
        THEN \* socket::do_read_some
             [y EXCEPT !.g_io_count = @ + 1,
                       !.queue = Append(@, [kind |-> "read_state", handler_ |-> <<>>,
                                            blk |-> 0, n |-> 0])]
        ELSE CoRun([y EXCEPT !.stack =
                       <<[fn |-> IF aw = "async_read_some"
                                 THEN "tls_stream::async_read_some" ELSE aw,
                          i |-> 0]>> \o @], FALSE)

\* the variant of io_op::operator() that calls the handler before it frees
\* the state
IoOpCallDispatchFirst(x, w) ==
    LET z == CbInvoke(x, w.handler_)
    IN  [z EXCEPT !.cache = OpCacheDeallocate(@, w.blk, w.n),
                  !.alloc.freed = w.blk]

\* io_op::operator(): the handler is moved out, delete this, ex.dispatch(h)
IoOpCall(x, w) ==
    CbInvoke([x EXCEPT !.cache = OpCacheDeallocate(@, w.blk, w.n),
                       !.alloc.freed = w.blk], w.handler_)

\* bench: the operation is called with the lambda as its handler
CbStart ==
    /\ io.phase = "cb"
    /\ ~io.started
    /\ io' = CbCall([io EXCEPT !.started = TRUE])
    /\ UNCHANGED <<poolVars, coVars, affVars, stopVars, refVars, taskVars, tpVars, doneVars>>

\* bench_co: async_run posts the starter of the chain
CoStart ==
    /\ io.phase = "co"
    /\ ~io.started
    /\ io' = [io EXCEPT !.started = TRUE,
                        !.stack = <<[fn |-> "lambda", i |-> 0]>>,
                        !.queue = Append(@, [kind |-> "starter", handler_ |-> <<>>,
                                             blk |-> 0, n |-> 0])]
    /\ UNCHANGED <<poolVars, coVars, affVars, stopVars, refVars, taskVars, tpVars, doneVars>>

\* io_context::run: the work item at the head of the queue is taken and
\* called.  An io_op frees its state and calls its handler; a read_state
\* resumes the coroutine that awaits the read; the starter starts the chain
IoRun ==
    /\ io.queue # <<>>
    /\ LET w == Head(io.queue)
           x == [io EXCEPT !.queue = Tail(@)]
           done == [x EXCEPT !.completed = @ + 1]
       IN  io' = CASE w.kind = "starter" -> CoRun(x, FALSE)
                   [] w.kind = "read_state" -> CoRun(done, TRUE)
                   [] w.kind = "io_op" -> IoOpCall(done, w)
    /\ UNCHANGED <<poolVars, coVars, affVars, stopVars, refVars, taskVars, tpVars, doneVars>>

\* run() has returned, the queue being empty: the counts of the run are
\* kept and the next run of the row begins, or the row is printed
BenchEnd ==
    /\ io.phase \in {"cb", "co"}
    /\ io.started
    /\ io.queue = <<>>
    /\ io' = [io EXCEPT !.ios[io.phase] = io.g_io_count,
                        !.counts[io.phase] = io.count,
                        !.phase = IF io.phase = "cb" THEN "co" ELSE "print",
                        !.started = FALSE,
                        !.g_io_count = IF io.phase = "cb" THEN 0 ELSE @,
                        !.completed = IF io.phase = "cb" THEN 0 ELSE @,
                        !.count = IF io.phase = "cb" THEN 0 ELSE @]
    /\ UNCHANGED <<poolVars, coVars, affVars, stopVars, refVars, taskVars, tpVars, doneVars>>

(***************************************************************************)
(* thread_pool                                                             *)
(*                                                                         *)
(* The functions dispatched are numbered in the order of dispatch.  What a *)
(* thread does while it holds mutex_ is one step; cv_.wait releases the    *)
(* mutex and blocks in the same step.  One thread calls dispatch and then  *)
(* the destructor.  In a burst the caller dispatches more functions than   *)
(* the queue has storage for before a worker takes the first.              *)
(***************************************************************************)
Workers == 1..MaxThreads

NoThreadPool ==
    [num_threads |-> 0, queue_ |-> <<>>, capacity |-> 0, allocs |-> 0,
     stopped_ |-> FALSE, worker |-> [w \in Workers |-> [pc |-> "none", task |-> 0]],
     caller |-> "idle", dtor |-> "none", burst |-> FALSE,
     taken |-> <<>>, ran |-> <<>>, d |-> [before |-> 0, alloc |-> FALSE]]

\* the variant of the constructor without queue_.reserve
ThreadPoolNoReserve(num_threads, burst) ==
    [NoThreadPool EXCEPT
        !.num_threads = num_threads, !.burst = burst,
        !.worker = [w \in Workers |->
                       [pc |-> IF w <= num_threads THEN "lock" ELSE "none", task |-> 0]]]

\* thread_pool(num_threads): queue_.reserve(64), the workers are started
ThreadPool(num_threads, burst) ==
    [NoThreadPool EXCEPT
        !.num_threads = num_threads, !.burst = burst,
        !.capacity = QueueReserve,
        !.worker = [w \in Workers |->
                       [pc |-> IF w <= num_threads THEN "lock" ELSE "none", task |-> 0]]]

\* the capacity of a vector that grows: half as much again or twice as much,
\* as the library chooses, and room for one element at least
Growth(c) == {IF c = 0 THEN 1 ELSE c + (c + 1) \div 2, IF c = 0 THEN 1 ELSE 2 * c}

\* the variant of the worker's test that leaves as soon as the pool is stopped
WorkerReturnsStopped(p) == p.stopped_

\* if(stopped_ && queue_.empty()) return;
WorkerReturns(p) == p.stopped_ /\ p.queue_ = <<>>

\* the predicate of cv_.wait
WaitPredicate(p) == p.queue_ # <<>> \/ p.stopped_

Blocked(p) == {w \in Workers : p.worker[w].pc = "blocked"}

\* dispatch(f), the locked part: queue_.push_back(f)
ThreadPoolDispatch ==
    /\ tp.dtor = "none"
    /\ tp.caller = "idle"
    /\ Len(tp.ran) < (IF tp.burst THEN QueueReserve + MaxOver ELSE MaxItems)
    /\ tp.burst => tp.taken = <<>>
    /\ LET grows == Len(tp.queue_) = tp.capacity
       IN  \E c \in (IF grows THEN Growth(tp.capacity) ELSE {tp.capacity}) :
               tp' = [tp EXCEPT !.queue_ = Append(@, Len(tp.ran) + 1),
                                !.ran = Append(@, 0),
                                !.capacity = c,
                                !.allocs = IF grows THEN @ + 1 ELSE @,
                                !.d = [before |-> Len(tp.queue_), alloc |-> grows],
                                !.caller = "notify"]
    /\ UNCHANGED <<poolVars, coVars, affVars, stopVars, refVars, taskVars, ioVars, doneVars>>

\* dispatch(f), after the lock is released: cv_.notify_one()
ThreadPoolNotifyOne ==
    /\ tp.caller = "notify"
    /\ \/ /\ Blocked(tp) = {}
          /\ tp' = [tp EXCEPT !.caller = "idle"]
       \/ \E w \in Blocked(tp) :
              tp' = [tp EXCEPT !.caller = "idle", !.worker[w].pc = "lock"]
    /\ UNCHANGED <<poolVars, coVars, affVars, stopVars, refVars, taskVars, ioVars, doneVars>>

\* worker(): under the lock the predicate is tested; the worker blocks, or
\* returns, or takes the function at the back of the queue
WorkerLocked(w) ==
    /\ tp.worker[w].pc = "lock"
    /\ tp' = IF ~WaitPredicate(tp)
             THEN [tp EXCEPT !.worker[w].pc = "blocked"]
             ELSE IF WorkerReturns(tp)
             THEN [tp EXCEPT !.worker[w].pc = "exited"]
             ELSE IF tp.queue_ = <<>>
             THEN \* queue_.back() of an empty vector
                  [tp EXCEPT !.worker[w].pc = "undefined"]
             ELSE [tp EXCEPT !.worker[w] = [pc |-> "run", task |-> tp.queue_[Len(tp.queue_)]],
                             !.queue_ = SubSeq(@, 1, Len(@) - 1),
                             !.taken = Append(@, tp.queue_[Len(tp.queue_)])]
    /\ UNCHANGED <<poolVars, coVars, affVars, stopVars, refVars, taskVars, ioVars, doneVars>>

\* worker(): task() is called without the lock and returns
WorkerRun(w) ==
    /\ tp.worker[w].pc = "run"
    /\ tp' = [tp EXCEPT !.ran[tp.worker[w].task] = @ + 1,
                        !.worker[w] = [pc |-> "lock", task |-> 0]]
    /\ UNCHANGED <<poolVars, coVars, affVars, stopVars, refVars, taskVars, ioVars, doneVars>>

\* a condition variable may wake a waiting thread without a notification
WorkerSpuriousWake(w) ==
    /\ tp.worker[w].pc = "blocked"
    /\ tp' = [tp EXCEPT !.worker[w].pc = "lock"]
    /\ UNCHANGED <<poolVars, coVars, affVars, stopVars, refVars, taskVars, ioVars, doneVars>>

\* ~thread_pool: stopped_ = true under the lock
DtorStop ==
    /\ tp.dtor = "none"
    /\ tp.caller = "idle"
    /\ tp' = [tp EXCEPT !.stopped_ = TRUE, !.dtor = "stopped"]
    /\ UNCHANGED <<poolVars, coVars, affVars, stopVars, refVars, taskVars, ioVars, doneVars>>

\* ~thread_pool: cv_.notify_all()
DtorNotifyAll ==
    /\ tp.dtor = "stopped"
    /\ tp' = [tp EXCEPT !.dtor = "notified",
                        !.worker = [w \in Workers |->
                                       IF tp.worker[w].pc = "blocked"
                                       THEN [tp.worker[w] EXCEPT !.pc = "lock"]
                                       ELSE tp.worker[w]]]
    /\ UNCHANGED <<poolVars, coVars, affVars, stopVars, refVars, taskVars, ioVars, doneVars>>

\* ~thread_pool: every thread is joined, and the destructor returns
DtorJoin ==
    /\ tp.dtor = "notified"
    /\ \A w \in Workers : tp.worker[w].pc \in {"none", "exited"}
    /\ tp' = [tp EXCEPT !.dtor = "returned"]
    /\ UNCHANGED <<poolVars, coVars, affVars, stopVars, refVars, taskVars, ioVars, doneVars>>

(***************************************************************************)
(* The done flag                                                           *)
(*                                                                         *)
(* A thread starts an affine task that was given a done flag, waits until  *)
(* it sees the flag set, and leaves the scope of the flag and of the task. *)
(* The task awaits a number of operations; every resumption is dispatched  *)
(* to the scheduler: the caller's own loop in sync_wait, the executor      *)
(* thread in run_task_full, a thread of the pool in the run_and_count_full *)
(* of senders_task.cpp.  The steps of the final awaiter's await_suspend    *)
(* are separate: the write of the flag, the reads of dispatcher_ and       *)
(* continuation_, the return.                                              *)
(***************************************************************************)
Waits == {"sync_wait", "run_task_full", "run_and_count_full"}

NoWait ==
    [launch |-> "none", n |-> 0, pc |-> 0, on |-> "none", pend |-> FALSE,
     fin |-> "none", done |-> FALSE, flag |-> "none", frame |-> "none",
     waiter |-> "none", thread |-> "none", undefined |-> FALSE]

\* make_task(); bool done = false; set_scheduler or set_executor; set_done_flag
NewWait(launch, n) ==
    [NoWait EXCEPT !.launch = launch, !.n = n, !.flag = "live", !.frame = "live",
                   !.waiter = "start",
                   !.thread = IF launch = "run_task_full" THEN "running" ELSE "none"]

\* the thread on which the scheduler resumes the task
SchedulerThread(launch) == IF launch = "sync_wait" THEN "main" ELSE "sched"

\* t.start(), called by the waiting thread, or dispatched to the executor in
\* run_task_full
WaitStart ==
    /\ dn.waiter = "start"
    /\ dn' = IF dn.launch = "run_task_full"
             THEN [dn EXCEPT !.waiter = "poll", !.pend = TRUE]
             ELSE [dn EXCEPT !.waiter = "poll", !.on = "main"]
    /\ UNCHANGED <<poolVars, coVars, affVars, stopVars, refVars, taskVars, ioVars, tpVars>>

\* co_await of an operation: the task is suspended, and the completion of the
\* operation dispatches the resumption to the scheduler
WaitAwait ==
    /\ dn.on # "none"
    /\ dn.pc < dn.n
    /\ dn' = [dn EXCEPT !.pc = @ + 1, !.on = "none", !.pend = TRUE]
    /\ UNCHANGED <<poolVars, coVars, affVars, stopVars, refVars, taskVars, ioVars, tpVars>>

\* the scheduler's thread takes the resumption and resumes the task; in
\* sync_wait that thread is the waiting one, inside run()
WaitResume ==
    /\ dn.pend
    /\ dn.on = "none"
    /\ SchedulerThread(dn.launch) = "main" => dn.waiter = "poll"
    /\ dn' = [dn EXCEPT !.pend = FALSE, !.on = SchedulerThread(dn.launch)]
    /\ UNCHANGED <<poolVars, coVars, affVars, stopVars, refVars, taskVars, ioVars, tpVars>>

\* final_awaiter::await_suspend: if (p_->done_flag_) *p_->done_flag_ = true
FinalSetFlag ==
    /\ dn.on # "none"
    /\ dn.pc = dn.n
    /\ dn.fin = "none"
    /\ dn' = [dn EXCEPT !.fin = "flag",
                        !.done = IF dn.flag = "live" THEN TRUE ELSE @,
                        !.undefined = @ \/ dn.flag # "live" \/ dn.frame # "live"]
    /\ UNCHANGED <<poolVars, coVars, affVars, stopVars, refVars, taskVars, ioVars, tpVars>>

\* final_awaiter::await_suspend: p_->dispatcher_ and p_->continuation_ are
\* read; the task started here has no continuation
FinalReadPromise ==
    /\ dn.fin = "flag"
    /\ dn' = [dn EXCEPT !.fin = "read", !.undefined = @ \/ dn.frame # "live"]
    /\ UNCHANGED <<poolVars, coVars, affVars, stopVars, refVars, taskVars, ioVars, tpVars>>

\* final_awaiter::await_suspend returns noop_coroutine(), and resume()
\* returns to the thread that called it
FinalReturn ==
    /\ dn.fin = "read"
    /\ dn' = [dn EXCEPT !.fin = "returned", !.on = "none"]
    /\ UNCHANGED <<poolVars, coVars, affVars, stopVars, refVars, taskVars, ioVars, tpVars>>

\* while (!done): the waiting thread finds the flag set
WaitSeen ==
    /\ dn.waiter = "poll"
    /\ dn.on # "main"
    /\ dn.done
    /\ dn' = [dn EXCEPT !.waiter = "seen"]
    /\ UNCHANGED <<poolVars, coVars, affVars, stopVars, refVars, taskVars, ioVars, tpVars>>

\* run_task_full: ex.stop()
WaitStop ==
    /\ dn.launch = "run_task_full"
    /\ dn.waiter = "seen"
    /\ dn' = [dn EXCEPT !.waiter = "stopped"]
    /\ UNCHANGED <<poolVars, coVars, affVars, stopVars, refVars, taskVars, ioVars, tpVars>>

\* run_task_full: ex.run() returns, the executor being stopped and its queue
\* empty, and the executor thread finds done set and ends
ExecutorThreadEnds ==
    /\ dn.thread = "running"
    /\ dn.waiter = "stopped"
    /\ dn.on = "none" /\ ~dn.pend
    /\ dn' = [dn EXCEPT !.thread = "ended",
                        !.undefined = @ \/ dn.flag # "live"]
    /\ UNCHANGED <<poolVars, coVars, affVars, stopVars, refVars, taskVars, ioVars, tpVars>>

\* run_task_full: executor_thread.join()
WaitJoin ==
    /\ dn.waiter = "stopped"
    /\ dn.thread = "ended"
    /\ dn' = [dn EXCEPT !.waiter = "joined"]
    /\ UNCHANGED <<poolVars, coVars, affVars, stopVars, refVars, taskVars, ioVars, tpVars>>

\* the waiting thread leaves the scope: the task is destroyed (~task destroys
\* the frame) and the flag goes out of scope, in the reverse order of their
\* declarations: the task first in run_task_full, the flag first in the others
WaitLeave ==
    /\ dn.waiter = (IF dn.launch = "run_task_full" THEN "joined" ELSE "seen")
          \/ dn.waiter = "leaving"
    /\ LET first == IF dn.launch = "run_task_full" THEN "frame" ELSE "flag"
       IN  dn' = IF dn.waiter # "leaving"
                 THEN IF first = "frame"
                      THEN [dn EXCEPT !.waiter = "leaving", !.frame = "destroyed"]
                      ELSE [dn EXCEPT !.waiter = "leaving", !.flag = "gone"]
                 ELSE [dn EXCEPT !.waiter = "returned", !.frame = "destroyed",
                                 !.flag = "gone"]
    /\ UNCHANGED <<poolVars, coVars, affVars, stopVars, refVars, taskVars, ioVars, tpVars>>

(***************************************************************************)
(* Specifications                                                          *)
(***************************************************************************)
NoChain ==
    [D |-> 1, bind |-> [i \in Task |-> NoCtx], size |-> [h \in Handle |-> 1],
     pre |-> 0, post |-> 0, launch |-> "async_run", same |-> TRUE, runs |-> 0,
     ovl |-> [i \in Task |-> "default"]]

InitState ==
    /\ pool = EmptyPool
    /\ held = <<>>
    /\ last = NoOp
    /\ xs = XsInit
    /\ run = 0
    /\ fr = [h \in Handle |-> NoFrame]
    /\ q = [c \in Ctx |-> <<>>]
    /\ read_op = [h_ |-> NoH, ex_ |-> NoCtx]
    /\ cur = [t \in Thread |-> Idle]
    /\ cnt = NoCnt
    /\ obs = NoObs
    /\ exq = <<>>
    /\ plq = <<>>

Init == InitState /\ chain \in Chains /\ at = NoTask /\ sp = NoStop /\ rf = NoRef /\ tt = NoRun /\ io = NoBench
    /\ tp = NoThreadPool /\ dn = NoWait

Next ==
    \/ StartRun
    \/ \E c \in Ctx : RunOne(c)
    \/ \E t \in Thread : StepRead(t)
    \/ \E t \in Thread : StepAwait(t)
    \/ \E t \in Thread : StepFinal(t)
    \/ \E t \in Thread : StepThrow(t)

Spec == Init /\ [][Next]_vars

InitPool == InitState /\ chain = NoChain /\ at = NoTask /\ sp = NoStop /\ rf = NoRef /\ tt = NoRun /\ io = NoBench
    /\ tp = NoThreadPool /\ dn = NoWait

NextPool ==
    \/ \E t \in Thread, n \in Sizes : PoolAllocate(t, n)
    \/ \E t \in Thread, b \in 1..MaxBlocks : PoolDeallocate(t, b)

SpecPool == InitPool /\ [][NextPool]_vars

InitAffine ==
    /\ InitState /\ chain = NoChain /\ sp = NoStop /\ rf = NoRef /\ tt = NoRun /\ io = NoBench
    /\ tp = NoThreadPool /\ dn = NoWait
    /\ at \in {NewTask(p) : p \in Progs}

NextAffine ==
    \/ AffLaunch
    \/ ExecutorRun
    \/ \E th \in {"ex", "pool"} : AffStep(th)
    \/ PoolRun

SpecAffine == InitAffine /\ [][NextAffine]_vars

InitStop ==
    /\ InitState /\ chain = NoChain /\ at = NoTask /\ rf = NoRef /\ tt = NoRun /\ io = NoBench
    /\ tp = NoThreadPool /\ dn = NoWait
    /\ sp \in {NewStop(c) : c \in StopChains}

NextStop ==
    \/ StopAwaitReady
    \/ StopAwaitSuspend
    \/ StopComplete
    \/ StopRequest
    \/ StopFinish

SpecStop == InitStop /\ [][NextStop]_vars

InitRef ==
    /\ InitState /\ chain = NoChain /\ at = NoTask /\ sp = NoStop /\ tt = NoRun
    /\ io = NoBench /\ tp = NoThreadPool /\ dn = NoWait
    /\ rf \in {[NoRef EXCEPT !.a = ExecutorRef(d), !.b = ExecutorRef(e), !.val = v] :
                  d \in Executors, e \in Executors, v \in [Executors -> Values]}

NextRef ==
    \/ RefCompare
    \/ \E e \in Executors : RefRebind(e)

SpecRef == InitRef /\ [][NextRef]_vars

OuterBodies == UNION {[1..n -> OuterOps] : n \in 0..MaxBody}

InnerBodies == UNION {[1..n -> InnerOps] : n \in 0..MaxInner}

InitTask ==
    /\ InitState /\ chain = NoChain /\ at = NoTask /\ sp = NoStop /\ rf = NoRef
    /\ io = NoBench /\ tp = NoThreadPool /\ dn = NoWait
    /\ tt \in {NewRun("run_and_count_full", o, i, halo) :
                   o \in OuterBodies, i \in InnerBodies, halo \in BOOLEAN}
             \cup {NewRun(l, o, <<>>, halo) :
                      l \in Launches \ {"run_and_count_full"},
                      o \in {<<>>, <<"throw">>}, halo \in BOOLEAN}

NextTask ==
    \/ TaskLaunch
    \/ TaskStep
    \/ TaskPoolRun
    \/ TaskLoopRun
    \/ TaskResult

SpecTask == InitTask /\ [][NextTask]_vars

\* every way of starting a task, with every body
InitTaskStarted ==
    /\ InitState /\ chain = NoChain /\ at = NoTask /\ sp = NoStop /\ rf = NoRef
    /\ io = NoBench /\ tp = NoThreadPool /\ dn = NoWait
    /\ tt \in {NewRun(l, o, i, halo) :
                   l \in Launches, o \in OuterBodies, i \in InnerBodies,
                   halo \in BOOLEAN}

SpecTaskStarted == InitTaskStarted /\ [][NextTask]_vars

InitIo ==
    /\ InitState /\ chain = NoChain /\ at = NoTask /\ sp = NoStop /\ rf = NoRef
    /\ tt = NoRun /\ tp = NoThreadPool /\ dn = NoWait
    /\ io \in {NewBench(op, s, w) :
                   op \in BenchOps, s \in Streams, w \in {0} \cup WarmSizes}

NextIo ==
    \/ CbStart
    \/ CoStart
    \/ IoRun
    \/ BenchEnd

SpecIo == InitIo /\ [][NextIo]_vars

InitThreadPool ==
    /\ InitState /\ chain = NoChain /\ at = NoTask /\ sp = NoStop /\ rf = NoRef
    /\ tt = NoRun /\ io = NoBench /\ dn = NoWait
    /\ tp \in {ThreadPool(n, FALSE) : n \in 1..MaxThreads} \cup {ThreadPool(1, TRUE)}

NextThreadPool ==
    \/ ThreadPoolDispatch
    \/ ThreadPoolNotifyOne
    \/ \E w \in Workers : WorkerLocked(w)
    \/ \E w \in Workers : WorkerRun(w)
    \/ \E w \in Workers : WorkerSpuriousWake(w)
    \/ DtorStop
    \/ DtorNotifyAll
    \/ DtorJoin

SpecThreadPool == InitThreadPool /\ [][NextThreadPool]_vars

InitWait ==
    /\ InitState /\ chain = NoChain /\ at = NoTask /\ sp = NoStop /\ rf = NoRef
    /\ tt = NoRun /\ io = NoBench /\ tp = NoThreadPool
    /\ dn \in {NewWait(l, n) : l \in Waits, n \in 0..MaxAwaits}

NextWait ==
    \/ WaitStart
    \/ WaitAwait
    \/ WaitResume
    \/ FinalSetFlag
    \/ FinalReadPromise
    \/ FinalReturn
    \/ WaitSeen
    \/ WaitStop
    \/ ExecutorThreadEnds
    \/ WaitJoin
    \/ WaitLeave

SpecWait == InitWait /\ [][NextWait]_vars

\* the threads of the pool and the caller go on running, and a function
\* that was called returns; nothing makes a waiting thread wake by itself
FairThreadPool ==
    /\ \A w \in Workers : WF_vars(WorkerLocked(w)) /\ WF_vars(WorkerRun(w))
    /\ WF_vars(ThreadPoolNotifyOne)
    /\ WF_vars(DtorNotifyAll) /\ WF_vars(DtorJoin)

InitThreadPoolFair ==
    /\ InitThreadPool
    /\ ~tp.burst

SpecThreadPoolFair == InitThreadPoolFair /\ [][NextThreadPool]_vars /\ FairThreadPool

(***************************************************************************)
(* Properties                                                              *)
(***************************************************************************)
Running(h) == \E t \in Thread : cur[t].h = h

\* C1: the code of a task that runs after a suspension runs in the event loop
\* of the context the task is bound to (its ex_), in chains launched with
\* async_run
ContextFidelity ==
    \A t \in Thread :
        (chain.launch = "async_run" /\ cur[t].h \in Task /\ fr[cur[t].h].pc > 0)
            => cur[t].ctx = fr[cur[t].h].ex_

\* C2: in every repetition after the warm-up run no frame of the chain is
\* obtained from the system allocator
ZeroSteadyStateAllocation == run >= 2 => cnt.sys = 0

\* all frames of the chain have the same size
EqualFrames == \A h \in Handle : chain.size[h] = 1

\* C3: reads on A, a switch to B with run_on for one read, back to A: in every
\* repetition after the warm-up run there is no allocation at all, neither of
\* a frame nor of the starter posted to B
SwitchScenarioZeroHeap ==
    (run >= 2 /\ chain.D = 2 /\ chain.bind[2] = "B" /\ EqualFrames)
        => cnt.sys + cnt.heap = 0

\* C4: after N blocks were allocated on thread 1 and all freed on thread 2,
\* the next N allocations of thread 1 take no block from the system allocator
CrossThreadReuse == xs.stage = "again" => xs.sys = 0

\* C5: however deep the chain, resume calls are never nested on a thread's
\* stack: the only resume on the stack is the one of the work item being run
ConstantStackDepth == \A t \in Thread : cur[t].depth <= 1

\* the innermost task of the deepest chain has completed after its read and
\* the chain has unwound to the outermost task, which runs again
UnwoundDeepestChain ==
    /\ chain.D = MaxDepth
    /\ cnt.io >= 1
    /\ fr[MaxDepth].st = "done"
    /\ fr[1].rs = 1
    /\ \E t \in Thread : cur[t].h = 1 /\ cur[t].depth = 1

\* C6: a completing task has dispatched its continuation through the context
\* of the task that awaited it, its frame is destroyed and back in the pool,
\* and the continuation is what runs next; without a continuation nothing is
\* resumed.  A task is resumed by a completing child at most once per await,
\* and exactly once when the child has completed.
FinalSuspendResumesCaller ==
    /\ (obs.kind = "final" /\ obs.by \in Task) =>
          LET f == fr[obs.by]
          IN  /\ f.st = "done"
              /\ \E t \in Thread :
                    pool.local[t] # <<>> /\ Head(pool.local[t]) = f.blk
              /\ IF f.continuation_ = NoH
                 THEN obs.h = Noop /\ \A t \in Thread : cur[t] = Idle
                 ELSE /\ obs.h = f.continuation_
                      /\ obs.via = fr[f.continuation_].ex_
                      /\ Running(obs.h)
                      /\ fr[obs.h].st = "run"
    /\ \A h \in Handle :
          /\ fr[h].rs <= fr[h].aw
          /\ (h < MaxDepth /\ fr[h].aw = 1 /\ fr[h + 1].st = "done") => fr[h].rs = 1

\* a task bound to B completes and resumes a continuation that lives on A
FinalAcrossContexts ==
    /\ obs.kind = "final"
    /\ obs.by \in Task
    /\ fr[obs.by].ex_ = "B"
    /\ fr[obs.by].caller_ex_ = "A"
    /\ obs.h = fr[obs.by].continuation_

\* the positions of the starters of task h in the queue of context c
StartersOf(h, c) == {i \in 1..Len(q[c]) : q[c][i] = [kind |-> "starter", h |-> h]}

\* C7: an awaited task that was not bound runs at once, on the context its
\* awaiter runs on, with the awaiter's context as its own and no starter; an
\* awaited task bound with run_on has exactly one starter in the queue of its
\* context and in no other, its awaiter's thread is back in its loop, and its
\* body has not begun.  A bound task only ever begins from its starter.
FirstResumption ==
    /\ obs.kind = "await_inline" =>
          /\ ~fr[obs.h].has_own_ex_
          /\ \E t \in Thread : cur[t].h = obs.h /\ cur[t].ctx = obs.on
          /\ fr[obs.h].ex_ = fr[obs.by].ex_
          /\ \A c \in Ctx : StartersOf(obs.h, c) = {}
    /\ obs.kind = "await_post" =>
          /\ fr[obs.h].has_own_ex_
          /\ fr[obs.h].ex_ = chain.bind[obs.h]
          /\ \A c \in Ctx :
                Cardinality(StartersOf(obs.h, c)) = (IF c = fr[obs.h].ex_ THEN 1 ELSE 0)
          /\ \A t \in Thread : cur[t] = Idle
          /\ fr[obs.h].st = "susp" /\ fr[obs.h].pc = 0
    /\ obs.kind \in {"await_inline", "await_post"} =>
          (fr[obs.h].has_own_ex_ <=> chain.bind[obs.h] # NoCtx)
    /\ \A h \in Task :
          /\ (\E c \in Ctx : StartersOf(h, c) # {}) =>
                (fr[h].st = "susp" /\ fr[h].pc = 0 /\ ~Running(h))
          /\ (fr[h].has_own_ex_ /\ fr[h].st = "run" /\ fr[h].pc = 0) =>
                \E t \in Thread :
                    cur[t] = [h |-> h, ctx |-> fr[h].ex_, depth |-> 1, work |-> "starter"]

\* a task bound to B has been awaited from A and its starter waits in B's queue
StarterPostedToB ==
    /\ obs.kind = "await_post"
    /\ obs.on = "A"
    /\ fr[obs.h].ex_ = "B"
    /\ StartersOf(obs.h, "B") # {}

\* C8 (as stated): in a chain started with async_run on A, every read issued
\* by a task that was not bound with run_on is posted to A and resumed through
\* A, in A's loop
UnboundReadsGoToA ==
    /\ (obs.kind = "post_read" /\ chain.launch = "async_run"
          /\ ~fr[obs.by].has_own_ex_) => obs.via = "A"
    /\ (obs.kind = "read" /\ chain.launch = "async_run"
          /\ ~fr[obs.h].has_own_ex_) => (obs.via = "A" /\ obs.on = "A")

\* the context a task holds: the one its nearest ancestor-or-self bound with
\* run_on was bound to, the launch context A when there is none
BoundUpTo(h) == {i \in 1..h : chain.bind[i] # NoCtx}

HeldCtx(h) ==
    IF BoundUpTo(h) = {} THEN "A"
    ELSE chain.bind[CHOOSE i \in BoundUpTo(h) : \A j \in BoundUpTo(h) : j <= i]

\* C8 (amended): at every suspension the awaited read or child is handed the
\* awaiting coroutine's ex_; a read is posted to, and resumed through and in
\* the loop of, the context held by the task that issued it
ContextPropagation ==
    /\ obs.kind = "post_read" =>
          /\ obs.via = fr[obs.by].ex_
          /\ obs.via = HeldCtx(obs.by)
          /\ read_op = [h_ |-> obs.by, ex_ |-> obs.via]
          /\ q[obs.via] # <<>> /\ q[obs.via][Len(q[obs.via])].kind = "read"
    /\ obs.kind \in {"await_inline", "await_post"} =>
          /\ obs.via = fr[obs.by].ex_
          /\ obs.via = HeldCtx(obs.by)
          /\ fr[obs.h].caller_ex_ = obs.via
          /\ fr[obs.h].continuation_ = obs.by
          /\ fr[obs.h].ex_ = HeldCtx(obs.h)
    /\ obs.kind = "read" =>
          /\ obs.via = HeldCtx(obs.h)
          /\ obs.on = HeldCtx(obs.h)
          /\ Running(obs.h)

\* an unbound task below a task bound to B has its read resumed through B
UnboundReadUnderBound ==
    /\ chain.launch = "async_run"
    /\ obs.kind = "read"
    /\ ~fr[obs.h].has_own_ex_
    /\ obs.via = "B"

\* C9: every protocol-aware operation of a body that mixes aware and unaware
\* operations is handed the task's dispatcher (the executor the task was
\* given), and after every operation the task runs on that executor's thread
DegradationNotBreakage ==
    /\ \A i \in 1..Len(at.prog) :
          /\ (Aware(at.prog[i]) /\ i < at.pc) => at.handed[i] = "ex"
          /\ at.handed[i] \in {"-", at.dispatcher_}
          /\ at.ran[i] \in {"-", "ex"}
    /\ at.on \in {"none", "ex"}

\* an aware operation awaited after an unaware one was handed the dispatcher
\* and the task went on after it on the executor
AwareAfterUnaware ==
    \E i, j \in 1..Len(at.prog) :
        /\ i < j
        /\ ~Aware(at.prog[i])
        /\ Aware(at.prog[j])
        /\ at.handed[j] = "ex"
        /\ at.ran[j] = "ex"
        /\ at.on = "ex"

\* the chain has reached the await at position i
Awaited(i) == sp.outcome[i] # "-"

\* C10 (as stated): with a token set before the chain begins, every stoppable
\* read the chain has awaited was handed the token and saw stop requested at
\* its first check
PresetStopReachesEveryOperation ==
    sp.preset =>
        \A i \in 1..Len(sp.ops) :
            (sp.ops[i] = "stoppable" /\ Awaited(i)) =>
                (sp.given[i] /\ sp.observed[i] = "T")

\* C10 (amended): with a token set before the chain begins, every await the
\* chain reaches is cut short by the stoppable awaiter, which sees stop
\* requested at its first check and ends the await with operation_canceled
\* without handing the token on; an operation is handed the token only at an
\* await where the awaiter's check had not seen a stop request, and what the
\* operation then observes is the state of the token
PresetStopCutsEveryAwait ==
    /\ sp.preset =>
          \A i \in 1..Len(sp.ops) :
              Awaited(i) =>
                  /\ sp.saw[i] = "T"
                  /\ ~sp.given[i]
                  /\ sp.observed[i] = "-"
                  /\ sp.outcome[i] = "canceled"
    /\ \A i \in 1..Len(sp.ops) :
          /\ sp.given[i] => (Stoppable(sp.ops[i]) /\ sp.saw[i] = "F")
          /\ sp.observed[i] = "T" => sp.stop

\* with a token set beforehand, a body that catches the cancellation has been
\* through two awaits of stoppable reads, both cut short
SecondAwaitCutShort ==
    /\ sp.preset
    /\ Len(sp.ops) >= 2
    /\ sp.ops[1] = "stoppable" /\ sp.ops[2] = "stoppable"
    /\ sp.outcome[1] = "canceled" /\ sp.outcome[2] = "canceled"
    /\ sp.saw[2] = "T"

\* the frame of h exists: created and not yet destroyed
Alive(h) == fr[h].st \in {"susp", "run"}

\* C11: in a chain launched with async_run the context is in the wrapper's
\* frame when the starter is posted, before any task has begun; while a task
\* that was awaited still has its frame, or a read is pending, the wrapper's
\* frame exists and holds the context, and so does the frame of every
\* coroutine above that task, whose ex_ the task's references lead through;
\* the wrapper destroys itself only when every task of the chain is done
RootWrapperLifetime ==
    chain.launch = "async_run" =>
        /\ obs.kind = "launch" =>
              /\ fr[Root].ex_ = "A" /\ obs.via = "A"
              /\ q["A"] = <<[kind |-> "root_starter", h |-> Root]>>
              /\ \A h \in Task : fr[h].pc = 0 /\ fr[h].st # "run"
        /\ \A h \in Task :
              (Alive(h) /\ fr[h].continuation_ # NoH) =>
                  /\ Alive(Root) /\ fr[Root].ex_ = "A"
                  /\ \A g \in Task : g < h => Alive(g)
                  /\ fr[h].caller_ex_ = fr[h - 1].ex_
        /\ (\E c \in Ctx : \E i \in 1..Len(q[c]) : q[c][i].kind = "read") =>
              /\ Alive(Root)
              /\ \A g \in Handle : g <= read_op.h_ => Alive(g)
        /\ (obs.kind = "final" /\ obs.by = Root) =>
              /\ fr[Root].st = "done"
              /\ \A h \in Task : h <= chain.D => fr[h].st = "done"
              /\ \A c \in Ctx : q[c] = <<>>

\* the wrapper of the deepest chain has destroyed itself after the chain, in
\* which an unbound task read through the wrapper's context, has completed
RootSelfDestructsLast ==
    /\ chain.launch = "async_run"
    /\ chain.D = MaxDepth
    /\ \A i \in Task : chain.bind[i] = NoCtx
    /\ obs.kind = "final" /\ obs.by = Root
    /\ cnt.io >= 1
    /\ read_op.ex_ = "A"

\* the blocks of the free lists
FreeBlocks ==
    UNION ({{pool.local[t][i] : i \in 1..Len(pool.local[t])} : t \in Thread}
           \cup {{pool.global[i] : i \in 1..Len(pool.global)}})

\* C12: the size recorded in a block never exceeds the capacity the block was
\* obtained with, a block handed out is held for a request within its
\* capacity, and the block allocate(n) has just returned has capacity n or more
NoUndersizedBlock ==
    /\ \A b \in 1..Len(pool.cap) : pool.bsize[b] <= pool.cap[b]
    /\ \A b \in 1..Len(held) : held[b].n <= pool.cap[b]
    /\ last.op = "alloc" => pool.cap[last.blk] >= last.n
    /\ \A b \in FreeBlocks : held[b] = NotHeld

\* a block of capacity 2 was reused for a request of 1 and released, so that
\* it lies in a free list with recorded size 1, and a request of 2 has just
\* been served by another block
SmallerReuseThenLarger ==
    /\ last.op = "alloc" /\ last.n = 2 /\ pool.cap[last.blk] >= 2
    /\ \E b \in FreeBlocks : pool.cap[b] = 2 /\ pool.bsize[b] = 1

\* the list holds a block whose recorded size is at least n
Adequate(list, n) == \E i \in 1..Len(list) : pool.bsize[list[i]] >= n

\* C13: every allocate(n) goes to the calling thread's list first and takes
\* its block from there when the list has an adequate one; only otherwise it
\* goes to the global list, and only when that has none either to the system
\* allocator: a block comes from the system exactly when neither list holds a
\* block of recorded size n or more
AllocationOrder ==
    [][(last'.op = "alloc" /\ pool' # pool) =>
          LET t == last'.t
              n == last'.n
              order == <<GetLocal(t), GlobalPool, OperatorNew>>
              k == Len(last'.acc)
          IN  /\ k \in 1..3
              /\ last'.acc = SubSeq(order, 1, k)
              /\ last'.from = order[k].list
              /\ last'.from = "local" <=> Adequate(pool.local[t], n)
              /\ last'.from = "global" <=>
                    (~Adequate(pool.local[t], n) /\ Adequate(pool.global, n))
              /\ last'.from = "system" <=>
                    (~Adequate(pool.local[t], n) /\ ~Adequate(pool.global, n))
              /\ last'.from = "system" =>
                    (Len(pool'.cap) = Len(pool.cap) + 1 /\ pool'.local = pool.local)
              /\ last'.from # "system" => pool'.cap = pool.cap]_vars

\* a request of 2 went to the system allocator although the calling thread's
\* list holds a block, which is recorded with size 1
SystemAfterInadequateLocal ==
    /\ last.op = "alloc" /\ last.n = 2 /\ last.from = "system"
    /\ last.acc = <<GetLocal(last.t), GlobalPool, OperatorNew>>
    /\ pool.local[last.t] # <<>>
    /\ \A i \in 1..Len(pool.local[last.t]) : pool.bsize[pool.local[last.t][i]] = 1

\* C14: a block taken from the calling thread's list is the best fit: no
\* block left in that list is large enough for the request and recorded with a
\* smaller size than the block handed out
BestFitLookup ==
    (last.op = "alloc" /\ last.from = "local") =>
        \A i \in 1..Len(pool.local[last.t]) :
            LET b == pool.local[last.t][i]
            IN  ~(pool.bsize[b] >= last.n /\ pool.bsize[b] < pool.bsize[last.blk])

\* C15: deallocate pushes the block on the head of the list of the thread
\* that calls it, whichever thread allocated the block, and changes no other
\* list; allocate changes no list of another thread; every operation goes to
\* no thread-local list but the caller's, and to the global list only under
\* its mutex
DeallocatesToCaller ==
    [][pool' # pool =>
          LET t == last'.t
          IN  /\ \A u \in Thread \ {t} : pool'.local[u] = pool.local[u]
              /\ \A i \in 1..Len(last'.acc) :
                    /\ last'.acc[i].list = "local" => last'.acc[i].of = t
                    /\ last'.acc[i].list = "global" => last'.acc[i].locked
              /\ last'.op = "free" =>
                    /\ pool'.local[t] = <<last'.blk>> \o pool.local[t]
                    /\ pool'.global = pool.global
                    /\ pool'.bsize[last'.blk] = last'.n
                    /\ last'.acc = <<GetLocal(t)>>
              /\ last'.op = "alloc" =>
                    /\ Len(pool'.local[t]) <= Len(pool.local[t])
                    /\ last'.from = "global" <=> pool'.global # pool.global]_vars

\* thread 2 has freed a block that thread 1 allocated: the block is the head
\* of thread 2's list
FreedByOtherThread ==
    /\ last.op = "free" /\ last.t = 2 /\ last.by = 1
    /\ pool.local[2] # <<>> /\ Head(pool.local[2]) = last.blk
    /\ \A i \in 1..Len(pool.local[1]) : pool.local[1][i] # last.blk

\* the operator new the frame of h is allocated with
NewOf(h) == IF h = Root THEN "root" ELSE chain.ovl[h]

\* C16: while a frame exists its header names the deallocation function and
\* the allocator of the operator new that allocated it; a destroyed frame was
\* released by the call of that function on that allocator with the total
\* size requested at its allocation, and its block is back in a free list
\* recorded with that size when the release has just happened
HeaderRoutedDeallocation ==
    \A h \in Handle :
        /\ fr[h].st # "none" =>
              /\ fr[h].hdr = OperatorNewHeader(NewOf(h))
              /\ fr[h].total = chain.size[h]
        /\ Alive(h) => fr[h].freed = NoCall
        /\ fr[h].st = "done" =>
              /\ fr[h].freed.fn = fr[h].hdr.dealloc
              /\ fr[h].freed.ctx = fr[h].hdr.ctx
              /\ fr[h].freed.n = fr[h].total
        /\ (obs.kind = "final" /\ obs.by = h) =>
              /\ fr[h].st = "done"
              /\ fr[h].blk \in FreeBlocks
              /\ pool.bsize[fr[h].blk] = fr[h].total

\* a chain whose tasks were allocated from the socket's pool and from the
\* static pool of task has completed, and every frame, the wrapper's
\* included, has been released through its own header
ReleasedThroughThreeAllocators ==
    /\ obs.kind = "final" /\ obs.by = Root
    /\ \E g, h \in Task :
          /\ fr[g].st = "done" /\ fr[g].freed.ctx = "socket::pool_"
          /\ fr[h].st = "done" /\ fr[h].freed.ctx = "task::alloc"
    /\ fr[Root].freed = [fn |-> "root", ctx |-> "root_task::alloc", n |-> chain.size[Root]]

\* the task has been started: awaited, or started with task::start
Started(h) == fr[h].caller_ex_ # NoCtx

ReadsIn(c) == {i \in 1..Len(q[c]) : q[c][i].kind = "read"}

\* C18: a read is posted to the context handed over at the suspension, which
\* the read state keeps together with the handle; when the read completes,
\* the coroutine that runs is what dispatch on that context returned for that
\* handle, in the loop of that context, and a read resumes nothing otherwise
ReadResumesThroughContext ==
    /\ obs.kind = "post_read" =>
          /\ read_op = [h_ |-> obs.by, ex_ |-> fr[obs.by].ex_]
          /\ \A c \in Ctx : (ReadsIn(c) # {}) <=> (c = read_op.ex_)
    /\ obs.kind = "read" =>
          /\ obs.via \in Ctx
          /\ obs.via = read_op.ex_
          /\ obs.via = fr[read_op.h_].ex_
          /\ obs.h = Dispatch(obs.via, read_op.h_)
          /\ obs.on = obs.via
          /\ \E t \in Thread : cur[t].h = obs.h /\ cur[t].work = "read" /\ cur[t].ctx = obs.via
    /\ \A t \in Thread :
          cur[t].work = "read" => (cur[t].ctx = read_op.ex_ /\ cur[t].depth = 1)

\* a read handed B by a task bound to B with run_on has completed and resumed
\* the task through B
ReadResumedThroughB ==
    /\ obs.kind = "read"
    /\ obs.via = "B"
    /\ fr[obs.h].has_own_ex_
    /\ obs.h = read_op.h_
    /\ Running(obs.h)

\* the number of reads waiting in the queues
PendingReads == Cardinality(UNION {{<<c, i>> : i \in ReadsIn(c)} : c \in Ctx})

\* the tasks whose last read has not resumed them yet
Reading == {h \in Task : fr[h].rd = fr[h].rr + 1}

\* C19: the one read state of the socket serves every read of every task of
\* the chain.  Issuing a read allocates nothing: the allocations of a run are
\* one starter for each task bound with run_on and at most one block for each
\* frame.  At most one read is outstanding, it is the one the read state
\* describes, and each read resumes the task that issued it, once: a task has
\* been resumed by as many reads as it has issued, less the outstanding one
PreallocatedReadState ==
    /\ cnt.heap = Cardinality({h \in Task : fr[h].has_own_ex_ /\ Started(h)})
    /\ cnt.sys <= Cardinality({h \in Handle : fr[h].st # "none"})
    /\ cnt.io >= PendingReads
    /\ PendingReads <= 1
    /\ Cardinality(Reading) = PendingReads
    /\ PendingReads = 1 => Reading = {read_op.h_}
    /\ \A h \in Task :
          /\ fr[h].rr <= fr[h].rd /\ fr[h].rd <= fr[h].rr + 1
          /\ fr[h].rd = fr[h].pc - fr[h].aw
          /\ fr[h].st \in {"run", "done"} => fr[h].rr = fr[h].rd
          /\ fr[h].st = "done" => fr[h].rr = chain.pre + chain.post
    /\ obs.kind = "read" =>
          /\ obs.h = read_op.h_
          /\ PendingReads = 0
          /\ fr[obs.h].rr = fr[obs.h].rd
          /\ fr[obs.h].st = "run"

\* two tasks have read through the same read state, one of them twice, every
\* read has resumed its issuer, and nothing but the frames was allocated
ReadStateReused ==
    /\ cnt.heap = 0
    /\ cnt.io >= 3
    /\ \E g, h \in Task : g # h /\ fr[g].rr = 2 /\ fr[h].rr >= 1
    /\ PendingReads = 0

\* C20: async_run returns normally only with the starter of the wrapper in
\* the queue of the context; when post throws, the call ends with the
\* exception, and then nothing is queued, no thread runs a coroutine, no task
\* of the chain has begun or been handed a context, the wrapper's frame is
\* destroyed, and no step of the chain can follow
PostFailureIsSynchronous ==
    /\ obs.kind = "launch" =>
          /\ q["A"] = <<[kind |-> "root_starter", h |-> Root]>>
          /\ fr[Root].st = "susp"
    /\ obs.kind = "launch_threw" =>
          /\ \A c \in Ctx : q[c] = <<>>
          /\ \A t \in Thread : cur[t] = Idle
          /\ \A h \in Task : fr[h].pc = 0 /\ fr[h].st # "run" /\ ~Started(h)
          /\ fr[Root].st = "done" /\ fr[Root].pc = 0
          /\ cnt.io = 0
          /\ ~ENABLED (\/ \E c \in Ctx : RunOne(c)
                       \/ \E t \in Thread : StepRead(t) \/ StepAwait(t) \/ StepFinal(t))

\* after a run that completed, post has thrown in the next async_run: the new
\* task is still suspended at its start and the wrapper's frame is gone
SecondLaunchThrew ==
    /\ obs.kind = "launch_threw"
    /\ chain.runs = MaxRuns
    /\ read_op.h_ # NoH
    /\ fr[1].st = "susp" /\ fr[1].pc = 0
    /\ fr[Root].st = "done"
    /\ fr[Root].blk \in FreeBlocks

\* C21: when an exception has escaped the body of a task or of the wrapper,
\* the process is terminated: no thread runs anything any more, the faulting
\* coroutine never reached its final suspension, its frame was not released,
\* and the coroutine awaiting it is still suspended at that await, never
\* resumed by it
UncaughtExceptionIsFatal ==
    \A h \in Handle :
        fr[h].exc =>
            /\ \A t \in Thread : cur[t] = Terminated
            /\ obs.kind = "terminate" /\ obs.by = h
            /\ fr[h].st = "faulted"
            /\ fr[h].freed = NoCall
            /\ fr[h].continuation_ \in Handle =>
                  LET c == fr[fr[h].continuation_]
                  IN  /\ c.st = "susp"
                      /\ c.rs = 0
                      /\ ~c.exc
            /\ ~ENABLED (\/ \E c \in Ctx : RunOne(c)
                         \/ \E t \in Thread : StepRead(t) \/ StepAwait(t) \/ StepFinal(t)
                         \/ StartRun)

\* the innermost task of a chain faults after a read, with its awaiter
\* suspended and work still queued on no thread
FaultAfterRead ==
    /\ obs.kind = "terminate"
    /\ obs.by = chain.D /\ chain.D >= 2
    /\ fr[obs.by].rr >= 1
    /\ fr[fr[obs.by].continuation_].st = "susp"

\* C22: a task that was created and not yet awaited or started is suspended
\* at the beginning of its body and has issued no read; a task past the
\* beginning of its body was awaited or started; and a frame is destroyed only
\* by the final suspension of its coroutine, at the end of its body with all
\* its reads and its child completed (the wrapper's also by async_run when
\* post throws, before it has begun)
TaskLifecycle ==
    /\ \A h \in Task :
          /\ (fr[h].st # "none" /\ ~Started(h)) =>
                (fr[h].st = "susp" /\ fr[h].pc = 0 /\ fr[h].rd = 0 /\ ~Running(h))
          /\ (fr[h].pc > 0 \/ fr[h].st \in {"run", "done", "faulted"}) => Started(h)
          /\ fr[h].freed # NoCall <=> fr[h].st = "done"
          /\ fr[h].st = "done" =>
                /\ fr[h].pc = BodyLen(h)
                /\ OpAt(h, fr[h].pc) = "final"
                /\ fr[h].rr = chain.pre + chain.post
                /\ h < chain.D => fr[h + 1].st = "done"
          /\ fr[h].blk \in FreeBlocks => fr[h].st \in {"none", "done"}
    /\ (\E h \in Task : ~Started(h) /\ fr[h].st # "none") => cnt.io = 0
    /\ fr[Root].st = "done" => (fr[Root].pc = 1 \/ obs.kind = "launch_threw")

\* in a repetition after the first, whose chain has read, the new task has
\* been created and launched with async_run but not resumed yet: it has done
\* nothing
CreatedNotStarted ==
    /\ obs.kind = "launch"
    /\ run >= 2
    /\ read_op.h_ # NoH
    /\ fr[1].st = "susp" /\ fr[1].pc = 0
    /\ ~Started(1)
    /\ cnt.io = 0

\* C23: a comparison of two references begins with the comparison of the
\* addresses of their operation tables; when the tables differ, which is the
\* case exactly when the references were made from executors of different
\* types, the result is false and the executors are not asked; when the
\* tables are the same, the result is what the executors' own equality says
EqualityShortCircuits ==
    rf.did # <<>> =>
        /\ rf.did[1] = "ops_ == other.ops_"
        /\ rf.a.ex_.type # rf.b.ex_.type <=> rf.a.ops_ # rf.b.ops_
        /\ rf.a.ex_.type # rf.b.ex_.type =>
              (rf.res = FALSE /\ rf.did = <<"ops_ == other.ops_">>)
        /\ (\E i \in 1..Len(rf.did) : rf.did[i] = "equals") => rf.a.ops_ = rf.b.ops_
        /\ rf.a.ops_ = rf.b.ops_ => (rf.res <=> rf.val[rf.a.ex_] = rf.val[rf.b.ex_])

\* two references to executors of different types whose values are the same
\* have been compared
DifferentTypesSameValue ==
    /\ rf.did # <<>>
    /\ rf.res = FALSE
    /\ rf.a.ex_.type # rf.b.ex_.type
    /\ rf.val[rf.a.ex_] = rf.val[rf.b.ex_]

\* the await at position i is suspended on a read in flight
Pending(i) == sp.phase = "pending" /\ sp.pc = i

\* C24: a stoppable read that is handed a token on which stop has been
\* requested does not start the read and registers no callback; it resumes its
\* caller within the call, once; a stoppable read in flight when stop is
\* requested is cancelled; no await is resumed more than once
StoppedTokenResumesPromptly ==
    \A i \in 1..Len(sp.ops) :
        /\ sp.resumes[i] <= 1
        /\ (sp.ops[i] = "stoppable" /\ sp.observed[i] = "T") =>
              /\ ~sp.started[i]
              /\ ~sp.callback_[i]
              /\ sp.resumes[i] = 1
              /\ ~Pending(i)
              /\ sp.outcome[i] = "canceled"
        /\ (sp.ops[i] = "stoppable" /\ Pending(i) /\ sp.stop) => sp.cancel[i]

\* stop was requested between the awaiter's check and the call of the read's
\* await_suspend(h, st), which resumed the caller without starting the read
HandedStoppedToken ==
    \E i \in 1..Len(sp.ops) :
        /\ sp.ops[i] = "stoppable"
        /\ sp.saw[i] = "F"
        /\ sp.observed[i] = "T"
        /\ sp.resumes[i] = 1
        /\ ~sp.started[i]

\* C25: a read that was in flight when stop was requested and that was not
\* cancelled ends its await with the value of the read, not with
\* operation_canceled
StartedWorkKeepsResult ==
    \A i \in 1..Len(sp.ops) :
        (/\ sp.started[i]
         /\ ~sp.cancel[i]
         /\ sp.requested = [pc |-> i, phase |-> "pending"]
         /\ sp.outcome[i] # "-") => sp.outcome[i] = "value"

\* the await at position i has been through await_suspend
Suspended(i) == sp.saw[i] = "F" /\ ~(sp.phase = "suspending" /\ sp.pc = i)

\* C26: every await the chain reaches, in the outermost task and in every
\* nested one, is made with the token given to the outermost task, whatever
\* was awaited before; a legacy read is not handed the token, a stoppable
\* operation that is suspended on is; the promise of every task that was
\* started holds that token
TokenSurvivesLegacyAwaits ==
    /\ \A i \in 1..Len(sp.ops) :
          /\ sp.saw[i] # "-" => sp.token[i] = "st"
          /\ sp.ops[i] = "legacy" => ~sp.given[i]
          /\ (Stoppable(sp.ops[i]) /\ Suspended(i)) => sp.given[i]
          /\ (sp.ops[i] = "task" /\ sp.given[i]) =>
                sp.stop_token_[Level(sp.ops, i) + 1] = "st"
    /\ sp.ops # <<>> => sp.stop_token_[1] = "st"

\* after a legacy read of the outermost task, its child was handed the token
\* and a stoppable read of the child was handed it too
TokenAfterLegacyRead ==
    \E i, j, k \in 1..Len(sp.ops) :
        /\ i < j /\ j < k
        /\ sp.ops[i] = "legacy" /\ sp.outcome[i] = "value" /\ ~sp.given[i]
        /\ sp.ops[j] = "task" /\ sp.given[j]
        /\ sp.ops[k] = "stoppable" /\ sp.given[k] /\ sp.token[k] = "st"

\* the frame of task h has been through final_suspend
Finished(h) == tt.fin[h] # <<>>

\* C27: a task whose scheduler is the run loop runs on the thread of the run
\* loop only: after every co_await, of an affine read, of a legacy timer or of
\* an inner task, it is resumed by a function the run loop took from its queue
\* and called, never by the pool thread on which the awaited operation
\* completed
SchedulerAffinity ==
    tt.launch = "run_and_count_full" =>
        /\ tt.on.th \in {"none", "loop"}
        /\ \A r \in tt.ran :
              /\ r.th = "loop"
              /\ r.after # "-" => r.by = "loop.run"
              /\ r.after = "-" => r.by \in {"start", "transfer"}

\* an affine read of the inner task completed on the pool and the inner task
\* went on, resumed by the run loop
ResumedByLoopAfterPool ==
    /\ tt.completions >= 1
    /\ tt.on = [h |-> "inner", th |-> "loop"]
    /\ [h |-> "inner", th |-> "loop", by |-> "loop.run", after |-> "affine"] \in tt.ran

Last(seq) == seq[Len(seq)]

\* C28: at the final suspension of a task, when a dispatcher is set the
\* continuation, if there is one, is given to the dispatcher and then the
\* no-op handle is returned; when none is set the continuation is returned for
\* symmetric transfer; the continuation is resumed at most once, and without
\* a continuation nothing is resumed and the no-op handle is returned
FinalSuspension ==
    \A h \in Frames :
        LET p == tt.f[h]
            n == Len(tt.fin[h])
        IN  /\ tt.cont[h] <= 1
            /\ Finished(h) =>
                  /\ (p.dispatcher_ # "none" /\ p.continuation_ # "none") =>
                        /\ n >= 2
                        /\ tt.fin[h][n - 1] = "dispatcher_(continuation_)"
                        /\ tt.fin[h][n] = "return noop_coroutine"
                        /\ tt.cont[h] = 1
                        /\ \A r \in tt.ran :
                              (r.h = p.continuation_ /\ r.after = "child") =>
                                  r.by = "loop.run"
                  /\ (p.dispatcher_ = "none" /\ p.continuation_ # "none") =>
                        /\ Last(tt.fin[h]) = "return continuation_"
                        /\ tt.cont[h] = 1
                        /\ tt.caller = "resumed"
                  /\ p.continuation_ = "none" =>
                        /\ Last(tt.fin[h]) = "return noop_coroutine"
                        /\ tt.cont[h] = 0
                        /\ \A i \in 1..n : tt.fin[h][i] # "dispatcher_(continuation_)"

\* the inner task has ended and the outer task, its continuation, was resumed
\* by the run loop
ContinuationDispatched ==
    /\ Finished("inner")
    /\ tt.cont["inner"] = 1
    /\ [h |-> "outer", th |-> "loop", by |-> "loop.run", after |-> "child"] \in tt.ran

\* a task without a dispatcher has ended and its awaiter was resumed by
\* symmetric transfer
ContinuationTransferred ==
    /\ Finished("outer")
    /\ tt.f["outer"].dispatcher_ = "none"
    /\ tt.caller = "resumed"

\* the body of h stopped at a throw
Threw(h) ==
    LET p == tt.f[h]
    IN  p.pc <= Len(TaskBody(tt, h)) /\ TaskBody(tt, h)[p.pc] = "throw"

\* C29: a body that ended with an exception, its own or the one rethrown by
\* an inner task it awaited, has the exception stored in its promise, has been
\* through final suspension, has set the done flag it was given and has handed
\* its continuation on; what result() or await_resume() gives is the rethrown
\* exception for such a task and the returned value for a task that did not
\* throw
ExceptionPropagation ==
    \A h \in Frames :
        LET p == tt.f[h]
        IN  /\ p.exception_ =>
                  /\ Finished(h)
                  /\ p.done_flag_ => tt.done
                  /\ p.continuation_ # "none" => tt.cont[h] = 1
            /\ (Finished(h) /\ Threw(h)) => p.exception_
            /\ (Finished(h) /\ ~p.exception_) => p.value_
            /\ tt.got[h] # "-" =>
                  /\ Finished(h)
                  /\ tt.got[h] = IF p.exception_ THEN "rethrown" ELSE "value"
            /\ (h = "outer" /\ Finished(h) /\ tt.got["inner"] = "rethrown") =>
                  p.exception_

\* the outer task threw after an affine read it was resumed from, and
\* result() rethrew
RethrownAfterAwait ==
    /\ tt.outer # <<>> /\ tt.outer[1] = "affine"
    /\ Threw("outer")
    /\ tt.done
    /\ tt.got["outer"] = "rethrown"

\* a task that did not throw delivered its value
ValueDelivered ==
    /\ tt.outer # <<>>
    /\ tt.got["outer"] = "value"
    /\ tt.got["inner"] = "value"

\* the number of awaits of op the outer task has begun
Begun(op) ==
    Cardinality({i \in 1..Len(tt.outer) : i < tt.f["outer"].pc /\ tt.outer[i] = op})

\* no task of the run has thrown
NothingThrown == \A h \in Frames : ~tt.f[h].exception_ /\ ~tt.f[h].raise

\* C30: the heap allocations of a run in which nothing is thrown are those of
\* the outer frame, which are those of an empty task, one for each inner task
\* awaited and one for each legacy await; the awaits of affine reads, in the
\* outer and in the inner tasks, and the items given to the pool and to the
\* run loop add none
AffineAwaitsAllocateNothing ==
    (tt.launch # "none" /\ NothingThrown) =>
        tt.allocs = FrameAllocs("outer", tt.halo) + Begun("child") + Begun("legacy")

\* a run with two affine reads around an inner task that awaited an affine
\* read has ended with one allocation more than an empty task
OneMoreForOneChild ==
    /\ tt.outer = <<"affine", "child", "affine">>
    /\ tt.inner # <<>> /\ tt.inner[1] = "affine"
    /\ tt.got["inner"] = "value"
    /\ tt.done
    /\ tt.completions >= 3
    /\ tt.allocs = FrameAllocs("outer", tt.halo) + 1

(***************************************************************************)
(* Composed operations: the counts of a benchmark row                      *)
(***************************************************************************)
\* the number of read_some operations an operation is composed of
ExpectedIo(op) ==
    CASE op = "read_some" -> 1
      [] op = "read" -> 5
      [] op = "request" -> 10
      [] op = "session" -> 100 * 10

DeleteBeforeDispatch ==
    io.phase = "cb" =>
        /\ io.g_alloc_count <= 1
        /\ (io.completed > 0 /\ io.queue # <<>>) =>
              /\ io.alloc.from = "cache"
              /\ io.alloc.blk = io.alloc.freed
              /\ io.cache.ptr_ = 0
        /\ \A i \in 1..Len(io.queue) : io.queue[i].blk # io.cache.ptr_

ReusedJustFreedBlock ==
    /\ io.phase = "cb" /\ io.completed >= 2 /\ io.queue # <<>>
    /\ io.alloc.from = "cache" /\ io.alloc.blk = io.alloc.freed
    /\ io.g_alloc_count = 1

\* C33: an operation performed through a tls_stream performs twice as many
\* read_some operations on the underlying socket as the same operation on a
\* plain socket.
TlsDoublesIo ==
    (io.phase = "print" /\ io.stream = "tls_stream") =>
        /\ io.ios.cb = 2 * ExpectedIo(io.op)
        /\ io.ios.co = 2 * ExpectedIo(io.op)

TakenInOrderPut ==
    \A i \in 1..Len(tp.taken) : tp.taken[i] = i

\* a function is in the queue and every started worker waits on cv_
AllBlockedWithWork ==
    /\ tp.queue_ # <<>>
    /\ \A w \in Workers : tp.worker[w].pc \in {"none", "blocked"}

\* C40: every function dispatched before the destructor starts is executed
\* exactly once by a worker; no worker waits forever while a function is in
\* the queue; the destructor returns, and only after every function has run
\* and every worker has left.
ThreadPoolCompleteness ==
    /\ [](\A i \in 1..Len(tp.ran) : tp.ran[i] <= 1)
    /\ [](\A w \in Workers : tp.worker[w].pc # "undefined")
    /\ [](AllBlockedWithWork => tp.caller = "notify" \/ tp.dtor = "stopped")
    /\ [](tp.dtor = "returned" =>
              /\ tp.queue_ = <<>>
              /\ \A i \in 1..Len(tp.ran) : tp.ran[i] = 1
              /\ \A w \in Workers : tp.worker[w].pc \in {"none", "exited"})
    /\ \A i \in 1..MaxItems : (Len(tp.ran) >= i) ~> (Len(tp.ran) >= i /\ tp.ran[i] = 1)
    /\ (tp.dtor = "stopped") ~> (tp.dtor = "returned")

DestructorDrained ==
    /\ tp.dtor = "returned" /\ tp.num_threads = MaxThreads
    /\ Len(tp.ran) = MaxItems
    /\ \A i \in 1..Len(tp.ran) : tp.ran[i] = 1

(***************************************************************************)
(* Chains started with async_run: frames and completion                    *)
(***************************************************************************)
\* the chain was started by async_run, and no exception ended the process
ChainStarted ==
    /\ chain.launch = "async_run"
    /\ run > 0
    /\ obs.kind # "launch_threw"
    /\ \A h \in Handle : fr[h].st # "faulted"

\* nothing of the chain is queued and no thread is running a coroutine
Drained ==
    /\ \A c \in Ctx : q[c] = <<>>
    /\ \A t \in Thread : cur[t] = Idle

\* the heap-allocated starters that have not been deleted: those queued and
\* those whose operator() is being executed
LiveStarters ==
    Cardinality({<<c, i>> \in Ctx \X (1..(MaxDepth + 1)) :
                    i <= Len(q[c]) /\ q[c][i].kind = "starter"})
    + Cardinality({t \in Thread : cur[t].work = "starter"})

FramesLive ==
    /\ \A t \in Thread : cur[t].h \in Handle => fr[cur[t].h].st = "run"
    /\ \A c \in Ctx : \A i \in 1..Len(q[c]) :
          IF q[c][i].kind = "read"
          THEN read_op.h_ \in Task /\ fr[read_op.h_].st = "susp"
          ELSE fr[q[c][i].h].st = "susp"
    /\ \A h \in Handle :
          (fr[h].st \in {"run", "susp"} /\ fr[h].continuation_ # NoH) =>
              fr[fr[h].continuation_].st = "susp"
    /\ Drained =>
          /\ \A h \in Handle : fr[h].st \in {"none", "done"}
          /\ \A h \in Handle : h <= chain.D => fr[h].st = "done"
          /\ LiveStarters = 0

\* C36: every frame of a chain started with async_run is destroyed exactly
\* once; no coroutine is resumed and no promise is written after its frame
\* was destroyed, what is resumed or queued being a live frame; and once the
\* queues have drained no frame and no heap-allocated starter is left.
FrameLifecycleSafety ==
    /\ [](ChainStarted => FramesLive)
    /\ [][\A h \in Handle :
             (fr[h].st = "done" /\ run' = run) => fr'[h] = fr[h]]_vars

AllFramesDestroyed ==
    /\ ChainStarted /\ Drained
    /\ chain.D = MaxDepth /\ chain.bind[2] = "B"
    /\ \A h \in Handle : fr[h].st = "done"
    /\ cnt.heap = 1

\* the co_awaits of coroutine h that have been resumed, of those it has made
Resumed(h) == [reads |-> fr[h].rr, tasks |-> fr[h].rs]

\* C37: after async_run and the running of every context of the chain until
\* its queue is empty, the chain has run to completion: every co_await was
\* made and resumed exactly once, the wrapper went on after its co_await of
\* the chain exactly once, and no work item is left in a queue.
ChainCompletion ==
    ChainStarted =>
        /\ \A h \in Handle : fr[h].rr <= fr[h].rd /\ fr[h].rs <= fr[h].aw
        /\ Drained =>
              \A h \in Handle : h <= chain.D =>
                  /\ fr[h].pc = (IF h = Root THEN 1 ELSE BodyLen(h))
                  /\ fr[h].rd = (IF h = Root THEN 0 ELSE chain.pre + chain.post)
                  /\ fr[h].aw = (IF h < chain.D THEN 1 ELSE 0)
                  /\ Resumed(h) = [reads |-> fr[h].rd, tasks |-> fr[h].aw]
                  /\ fr[h].st = "done"

ChainRanToCompletion ==
    /\ ChainStarted /\ Drained
    /\ chain.D = MaxDepth /\ chain.pre = MaxReads /\ chain.post = MaxReads
    /\ chain.bind[2] = "B" /\ ~chain.same
    /\ Resumed(Root) = [reads |-> 0, tasks |-> 1]
    /\ Resumed(1) = [reads |-> 2 * MaxReads, tasks |-> 1]

(***************************************************************************)
(* The done flag: the waiter and final_suspend                             *)
(***************************************************************************)
\* C38: when the waiting thread has seen the done flag set and destroys the
\* task, no other thread is still inside the task's final_suspend or reads
\* its promise, and the flag is not written after it went out of scope.
CompletionSignalRaceFree ==
    /\ dn.frame = "destroyed" => dn.fin = "returned"
    /\ dn.flag = "gone" => dn.fin # "none"
    /\ ~dn.undefined

(***************************************************************************)
(* Affine tasks: the dispatcher at the first co_await                      *)
(***************************************************************************)
\* C39: on every way of starting a task (start() after set_scheduler, the
\* await of an affine parent, the await through the legacy
\* await_suspend(caller)), the dispatcher is set before the first co_await:
\* await_transform never dereferences an empty dispatcher.
DispatcherSetBeforeAwait ==
    tt.launch \in {"run_and_count_full", "await_suspend(caller)"} =>
        /\ ~tt.empty
        /\ \A h \in Frames : tt.f[h].st # "undefined"

=============================================================================
